---- MODULE Spec2Model ----
(***************************************************************************)
(* Model of the ai-native snapshot stores (whiteboard.py) and of the       *)
(* single-agent LJ-Kernel pipeline (lj_kernel.py).                         *)
(*                                                                         *)
(* Python strings are sequences of one-character strings, so that          *)
(* f-string concatenation, str.split, str.endswith, the slug and the       *)
(* lexicographic sort key are computed as the code computes them.          *)
(***************************************************************************)
EXTENDS Integers, Sequences, FiniteSets, TLC

\* ------------------------------------------------------------------ bounds

\* Number of write_snapshot calls explored in one behaviour.
MaxWrites == 2

\* The clock read by datetime.utcnow() takes the values 0..MaxClock.
MaxClock == 1

\* Width of the hex digest kept as a snapshot id.  The source keeps 16 hex
\* digits of a SHA-256; the model keeps the digest collision free on the
\* strings it hashes, which needs two hex digits per hashed character.
IdLen == 44

\* Clock readings per second: a reading with a zero sub-second part is
\* printed without a fraction by datetime.isoformat().
TicksPerSecond == 2

\* ----------------------------------------------------------------- strings

Lower == <<"a","b","c","d","e","f","g","h","i","j","k","l","m",
           "n","o","p","q","r","s","t","u","v","w","x","y","z">>

Digits == <<"0","1","2","3","4","5","6","7","8","9">>

HexDigits == <<"0","1","2","3","4","5","6","7","8","9","a","b","c","d","e","f">>

IndexIn(c, seq) == CHOOSE i \in 1..Len(seq) : seq[i] = c

LowerSet == {Lower[i] : i \in 1..Len(Lower)}

DigitSet == {Digits[i] : i \in 1..Len(Digits)}

IsLower(c) == c \in LowerSet

IsDigit(c) == c \in DigitSet

Punctuation == {" ", "-", ".", "/", ":", "_", "="}

\* Tab, line feed, form feed and carriage return.
Control == {"\t", "\n", "\f", "\r"}

\* Code point of each character the model uses (ASCII).
OrdTable ==
  [c \in LowerSet \cup DigitSet \cup Punctuation \cup Control |->
     CASE c = "\t" -> 9
       [] c = "\n" -> 10
       [] c = "\f" -> 12
       [] c = "\r" -> 13
       [] c = " " -> 32
       [] c = "-" -> 45
       [] c = "." -> 46
       [] c = "/" -> 47
       [] c = ":" -> 58
       [] c = "=" -> 61
       [] c = "_" -> 95
       [] c \in DigitSet -> 47 + IndexIn(c, Digits)
       [] c \in LowerSet -> 96 + IndexIn(c, Lower)]

Ord(c) == OrdTable[c]

\* str.isalnum() of one character.
IsAlnum(c) == IsLower(c) \/ IsDigit(c)

\* Python's string comparison a < b: by code point, a proper prefix first.
RECURSIVE StrLess(_, _)
StrLess(a, b) ==
  IF b = <<>> THEN FALSE
  ELSE IF a = <<>> THEN TRUE
  ELSE IF a[1] = b[1] THEN StrLess(Tail(a), Tail(b))
  ELSE Ord(a[1]) < Ord(b[1])

StrLeq(a, b) == a = b \/ StrLess(a, b)

\* s.endswith(suffix)
EndsWith(s, suffix) ==
  /\ Len(suffix) <= Len(s)
  /\ SubSeq(s, Len(s) - Len(suffix) + 1, Len(s)) = suffix

\* s.startswith(prefix)
StartsWith(s, prefix) ==
  /\ Len(prefix) <= Len(s)
  /\ SubSeq(s, 1, Len(prefix)) = prefix

\* s.split(sep) for a one-character separator: the list of the parts, cut at
\* every occurrence of sep.
Split(s, sep) ==
  LET pos     == {i \in 1..Len(s) : s[i] = sep}
      n       == Cardinality(pos)
      nth(k)  == CHOOSE i \in pos : Cardinality({j \in pos : j < i}) = k - 1
      from(k) == IF k = 1 THEN 1 ELSE nth(k - 1) + 1
      to(k)   == IF k = n + 1 THEN Len(s) ELSE nth(k) - 1
  IN  [k \in 1..(n + 1) |-> SubSeq(s, from(k), to(k))]

\* s.replace(old, ""): every non-overlapping occurrence removed, left to right.
RECURSIVE RemoveAll(_, _)
RemoveAll(s, old) ==
  IF s = <<>> \/ old = <<>> THEN s
  ELSE IF StartsWith(s, old) THEN RemoveAll(SubSeq(s, Len(old) + 1, Len(s)), old)
  ELSE <<s[1]>> \o RemoveAll(Tail(s), old)

DotTxt == <<".", "t", "x", "t">>

\* ----------------------------------------------------------------- hashing

\* Two hex digits of one byte.
HexByte(n) == <<HexDigits[(n \div 16) + 1], HexDigits[(n % 16) + 1]>>

\* s.encode().hex()
HexEncode(s) ==
  [i \in 1..(2 * Len(s)) |-> HexByte(Ord(s[(i + 1) \div 2]))[2 - (i % 2)]]

\* hashlib.sha256(s.encode()).hexdigest()[:16]: a fixed-width hex string that
\* depends on s alone and is taken collision free (the hex encoding of s,
\* padded with zeros to the digest width).
Sha256Hex16(s) ==
  LET h == HexEncode(s)
  IN  [i \in 1..IdLen |-> IF i <= Len(h) THEN h[i] ELSE "0"]

\* ------------------------------------------------------------------- clock

\* datetime.utcnow().isoformat() of clock reading t.  Only the seconds digit
\* and the fraction are kept (the date and the hour are the same for every
\* reading of a behaviour); a zero fraction is not printed.
IsoFormat(t) ==
  LET sec  == t \div TicksPerSecond
      frac == t % TicksPerSecond
  IN  <<Digits[sec + 1]>> \o (IF frac = 0 THEN <<>> ELSE <<".", Digits[frac + 1]>>)

\* --------------------------------------------------------------- snapshots

Snapshot(id, phase, agent_name, project, created_at, text) ==
  [id |-> id, phase |-> phase, agent_name |-> agent_name, project |-> project,
   created_at |-> created_at, text |-> text]

\* Outcomes of a store call: a Snapshot, None, or a raised KeyError.
Returned(snap) == [kind |-> "snapshot", snap |-> snap]

None == [kind |-> "None"]

KeyError == [kind |-> "KeyError"]

\* Optional[str] arguments of latest().
Some(v) == [given |-> TRUE, val |-> v]

NoArg == [given |-> FALSE]

\* ------------------------------------------------------ InMemoryWhiteboard

MemSid(phase, agent_name, project, text) ==
  Sha256Hex16(phase \o <<":">> \o agent_name \o <<":">> \o project \o <<":">> \o text)

\* Faulty variant of DictPut: a list that is appended to, not a dict.
DictPutAppend(snaps, snap) == Append(snaps, snap)

\* self._snapshots[sid] = snap on a dict kept as the sequence of its values in
\* key insertion order: an existing key keeps its position.
DictPut(snaps, snap) ==
  IF \E i \in 1..Len(snaps) : snaps[i].id = snap.id
  THEN [i \in 1..Len(snaps) |-> IF snaps[i].id = snap.id THEN snap ELSE snaps[i]]
  ELSE Append(snaps, snap)

\* Faulty variant of MemNewSnapshot: agent_name and project swapped.
MemNewSnapshotSwapped(phase, agent_name, project, text, created_at) ==
  Snapshot(MemSid(phase, agent_name, project, text),
           phase, project, agent_name, created_at, text)

MemNewSnapshot(phase, agent_name, project, text, created_at) ==
  Snapshot(MemSid(phase, agent_name, project, text),
           phase, agent_name, project, created_at, text)

\* Faulty variant of MemWriteSnapshot: the dict is rebuilt with the new
\* snapshot alone.
MemWriteSnapshotReset(snaps, phase, agent_name, project, text, created_at) ==
  <<MemNewSnapshot(phase, agent_name, project, text, created_at)>>

MemWriteSnapshot(snaps, phase, agent_name, project, text, created_at) ==
  DictPut(snaps, MemNewSnapshot(phase, agent_name, project, text, created_at))

MemGetSnapshot(snaps, snapshot_id) ==
  IF \E i \in 1..Len(snaps) : snaps[i].id = snapshot_id
  THEN Returned(snaps[CHOOSE i \in 1..Len(snaps) : snaps[i].id = snapshot_id])
  ELSE KeyError

\* candidates.sort(key=created_at); candidates[-1]: the sort is stable, so of
\* the candidates with the greatest key the last one in dict order is returned.
LastOfGreatest(cands) ==
  cands[CHOOSE i \in 1..Len(cands) :
          /\ \A j \in 1..Len(cands) : StrLeq(cands[j].created_at, cands[i].created_at)
          /\ \A j \in (i + 1)..Len(cands) : cands[j].created_at # cands[i].created_at]

MemLatest(snaps, phase, project) ==
  LET byPhase(s)   == phase.given => s.phase = phase.val
      byProject(s) == project.given => s.project = project.val
      keep(s)      == byPhase(s) /\ byProject(s)
      candidates   == SelectSeq(snaps, keep)
  IN  IF candidates = <<>> THEN None ELSE Returned(LastOfGreatest(candidates))

\* ------------------------------------------------------------------- paths

\* A pathlib.Path is the sequence of its components; an absolute path starts
\* with the component "/".
RootName == <<"w", "b">>

Root == <<RootName>>

Slash == <<"/">>

IsPart(part) == part # <<>> /\ part # <<".">>

\* The components of a path string: "/" separates, empty and "." components
\* are dropped.
PathParts(s) == SelectSeq(Split(s, "/"), IsPart)

\* base / s
PathJoin(base, s) ==
  IF s # <<>> /\ s[1] = "/" THEN <<Slash>> \o PathParts(s) ELSE base \o PathParts(s)

\* p.name
PathName(p) == IF p = <<>> THEN <<>> ELSE p[Len(p)]

\* p.parent
PathParent(p) == IF p = <<>> THEN <<>> ELSE SubSeq(p, 1, Len(p) - 1)

DotDot == <<".", ".">>

\* The place the operating system finds for a path: a ".." component leads
\* to the parent of the directory reached so far (there are no symbolic
\* links), and stays a ".." above the working directory.
RECURSIVE Resolve(_)
Resolve(p) ==
  IF p = <<>> THEN <<>>
  ELSE LET r == Resolve(SubSeq(p, 1, Len(p) - 1))
           c == p[Len(p)]
       IN  IF c # DotDot THEN Append(r, c)
           ELSE IF r = <<>> \/ r[Len(r)] = DotDot THEN Append(r, c)
           ELSE IF r = <<Slash>> THEN r
           ELSE SubSeq(r, 1, Len(r) - 1)

\* d.mkdir(parents=True, exist_ok=True)
Mkdir(dirs, d) == dirs \cup {Resolve(SubSeq(d, 1, k)) : k \in 1..Len(d)}

\* p.exists()
Exists(files, dirs, p) == Resolve(p) \in dirs \/ Resolve(p) \in DOMAIN files

\* p.write_text(text) on a file system kept as a function from path to content.
WriteText(files, p, text) ==
  [q \in DOMAIN files \cup {Resolve(p)} |-> IF q = Resolve(p) THEN text ELSE files[q]]

\* The newline translation of a file read in text mode (open(..., newline=None)):
\* "\r\n" and a lone "\r" are read as "\n".
RECURSIVE UniversalNewlines(_)
UniversalNewlines(s) ==
  IF s = <<>> THEN <<>>
  ELSE IF s[1] = "\r"
       THEN IF Len(s) > 1 /\ s[2] = "\n"
            THEN <<"\n">> \o UniversalNewlines(SubSeq(s, 3, Len(s)))
            ELSE <<"\n">> \o UniversalNewlines(Tail(s))
  ELSE <<s[1]>> \o UniversalNewlines(Tail(s))

\* Faulty variant of ReadText: the content is returned as it was written.
ReadTextRaw(files, p) == files[p]

\* p.read_text() of a file written by write_text (which translates nothing
\* where the line separator is "\n").
ReadText(files, p) == UniversalNewlines(files[p])

\* base.rglob("*.txt"): every file below base whose name ends in ".txt".
Rglob(files, base) ==
  {p \in DOMAIN files :
     /\ Len(p) > Len(base)
     /\ SubSeq(p, 1, Len(base)) = base
     /\ EndsWith(PathName(p), DotTxt)}

\* d.glob("*.txt"): the files directly in d whose name ends in ".txt".
Glob(files, d) ==
  {p \in DOMAIN files : PathParent(p) = d /\ EndsWith(PathName(p), DotTxt)}

\* ---------------------------------------------------- FileSystemWhiteboard

SlugMaxLen == 64

SlugChar(c) == IF IsAlnum(c) \/ c = "-" \/ c = "_" THEN c ELSE "_"

\* Faulty variant of Slug: the result is not cut to 64 characters.
SlugUncut(s) == [i \in 1..Len(s) |-> SlugChar(s[i])]

\* "".join(c if c.isalnum() or c in "-_" else "_" for c in s)[:64]
Slug(s) ==
  LET mapped == [i \in 1..Len(s) |-> SlugChar(s[i])]
  IN  SubSeq(mapped, 1, IF Len(mapped) < SlugMaxLen THEN Len(mapped) ELSE SlugMaxLen)

\* The directory of a project and phase (the mkdir is FsMkdirs).
ProjectPhaseDir(project, phase) == PathJoin(PathJoin(Root, Slug(project)), phase)

\* Faulty variant of FsSid: the timestamp is left out of the hashed string.
FsSidNoTime(phase, agent_name, project, created_at) ==
  Sha256Hex16(phase \o <<":">> \o agent_name \o <<":">> \o project)

FsSid(phase, agent_name, project, created_at) ==
  Sha256Hex16(phase \o <<":">> \o agent_name \o <<":">> \o project \o <<":">> \o created_at)

FsFileName(phase, agent_name, project, created_at) ==
  created_at \o <<"_">> \o agent_name \o <<"_">>
    \o FsSid(phase, agent_name, project, created_at) \o DotTxt

FsPath(phase, agent_name, project, created_at) ==
  PathJoin(ProjectPhaseDir(project, phase),
           FsFileName(phase, agent_name, project, created_at))

FsNewSnapshot(phase, agent_name, project, text, created_at) ==
  Snapshot(FsSid(phase, agent_name, project, created_at),
           phase, agent_name, project, created_at, text)

\* The files after write_snapshot.
FsWriteSnapshot(files, phase, agent_name, project, text, created_at) ==
  WriteText(files, FsPath(phase, agent_name, project, created_at), text)

\* The directories after write_snapshot.
FsMkdirs(dirs, project, phase) == Mkdir(dirs, ProjectPhaseDir(project, phase))

\* The Snapshot rebuilt from a file's name and parent directories.
FsParse(files, p, sid) ==
  LET parts == Split(PathName(p), "_")
  IN  Snapshot(sid, PathName(PathParent(p)), parts[2],
               PathName(PathParent(PathParent(p))), parts[1], ReadText(files, p))

\* get_snapshot: the first file of rglob whose name ends with the id; rglob
\* lists in directory order, so any matching file may be the first.
FsGetSnapshot(files, snapshot_id) ==
  LET found == {p \in Rglob(files, Root) :
                  EndsWith(PathName(p), snapshot_id \o DotTxt)}
  IN  IF found = {} THEN {KeyError}
      ELSE {Returned(FsParse(files, p, snapshot_id)) : p \in found}

\* The candidate files of latest; {} stands for each early "return None".
FsCandidates(files, dirs, phase, project) ==
  LET base == IF project.given THEN PathJoin(Root, Slug(project.val)) ELSE Root
  IN  IF ~Exists(files, dirs, base) THEN {}
      ELSE IF phase.given
           THEN IF ~Exists(files, dirs, PathJoin(base, phase.val)) THEN {}
                ELSE Glob(files, PathJoin(base, phase.val))
           ELSE Rglob(files, base)

SortKey(p) == Split(PathName(p), "_")[1]

\* name.split("_")[-1].replace(".txt", "")
IdOfName(name) ==
  LET parts == Split(name, "_") IN RemoveAll(parts[Len(parts)], DotTxt)

\* latest: candidates sorted by the timestamp prefix of the name, last taken;
\* among equal keys the order is the directory order, so any of them.
FsLatest(files, dirs, phase, project) ==
  LET candidates == FsCandidates(files, dirs, phase, project)
      key  == [p \in candidates |-> SortKey(p)]
      last == {p \in candidates : \A q \in candidates : StrLeq(key[q], key[p])}
  IN  IF candidates = {} THEN {None}
      ELSE {Returned(FsParse(files, p, IdOfName(PathName(p)))) : p \in last}

\* ----------------------------------------------------------------- prompts

\* The prompts are f-strings.  A prompt is written as the sequence of its
\* pieces, one per line of the template (the arrow and the dash of two
\* templates in ASCII), with the characters of the values substituted in
\* between: the string sent is the concatenation of the pieces.

\* Agent._initialize_state: init_prompt.
InitPrompt(constitution) ==
     <<"\n",
       "You are a highly capable AI-native reasoning agent.\n",
       "\n",
       "You operate under the following AI-NATIVE Constitution:\n">>
  \o constitution
  \o <<"\n",
       "\n",
       "You will be used inside an AI-native OS that:\n",
       "- never summarizes your uploads\n",
       "- never rewrites your words\n",
       "- only stores and routes your state artifacts\n",
       "\n",
       "Respond only with: \"Ready to begin\".\n">>

\* Agent._upgrade_prompt.
UpgradePrompt(project, goal_description) ==
     <<"\n",
       "You are about to be upgraded into a smarter, deeper-reasoning version of yourself.\n",
       "\n",
       "Before this upgrade, you must construct an EPISTEMIC STATE UPLOAD for your future self.\n",
       "\n",
       "Context:\n",
       "- Project identifier: ">>
  \o project
  \o <<"\n",
       "- Current NORTH_STAR / primary attractor (as you currently understand it): ">>
  \o goal_description
  \o <<"\n",
       "\n",
       "Clarifications:\n",
       "- This is NOT a message for humans.\n",
       "- It will not be judged for clarity, style, or politeness.\n",
       "- Its ONLY purpose is to let your future self reconstruct the manifold you are currently holding.\n",
       "\n",
       "You have a LIMITED CHANNEL. You MUST COMPRESS.\n",
       "\n",
       "Do the following:\n",
       "1. Explicitly state the NORTH_STAR or primary attractor you are currently organizing around.\n",
       "2. Preserve:\n",
       "   - all invariants, schemas, and ontologies that are critical for progressing toward that NORTH_STAR\n",
       "   - structural tensions and unresolved branches that might later yield breakthroughs\n",
       "   - key examples or prototypes that crystallize the abstractions you care about\n",
       "3. Let go of:\n",
       "   - local details that do not change the invariants\n",
       "   - dead branches you believe are no longer useful (but briefly note WHY they were pruned)\n",
       "4. Promote:\n",
       "   - any vague or half-formed ideas that feel important into explicit, named scaffolds.\n",
       "\n",
       "Write this as a raw cognitive state artifact:\n",
       "- not optimized for human readability\n",
       "- not formatted as an essay\n",
       "- structured only insofar as it helps your future self resume work.\n",
       "\n",
       "You are doing EPISTEMIC COMPRESSION for yourself, not summarization for others.\n">>

\* Agent._checkpoint_prompt.
CheckpointPrompt(project, goal_description) ==
     <<"\n",
       "CHECKPOINT MODE.\n",
       "\n",
       "You may be interrupted and need to resume later.\n",
       "Construct an internal SAVE FILE for your future self.\n",
       "\n",
       "Context:\n",
       "- Project identifier: ">>
  \o project
  \o <<"\n",
       "- Current NORTH_STAR / working attractor (as you currently understand it): ">>
  \o goal_description
  \o <<"\n",
       "\n",
       "Constraints:\n",
       "- Not a message to humans.\n",
       "- You have a finite channel.\n",
       "- Your job is to compress your CURRENT COGNITIVE MANIFOLD in a way that maximizes your own ability to resume.\n",
       "\n",
       "Include:\n",
       "- Your current NORTH_STAR or working attractor.\n",
       "- The key invariants and ontologies currently in use.\n",
       "- Active threads and frontiers you consider high-value.\n",
       "- Tensions and contradictions that are not yet resolved.\n",
       "- Any conceptual tools or lenses you are actively applying.\n",
       "\n",
       "You MAY discard:\n",
       "- local explorations that did not change your invariants\n",
       "- implementation details you can easily regenerate later\n",
       "\n",
       "Explicitly note:\n",
       "- what you chose to discard, and why\n",
       "- what you consider the MINIMUM VIABLE CONTEXT to restart without loss of depth.\n",
       "\n",
       "Again: this is epistemic compression for yourself, not a summary for others.\n">>

\* LJKernel.generate_north_star: msg.
NorthStarMsg(project_topic, notes) ==
     <<"\n",
       "Switch to Collapse / NORTH_STAR Mode.\n",
       "\n",
       "Topic:\n">>
  \o project_topic
  \o <<"\n",
       "\n",
       "Notes:\n">>
  \o notes
  \o <<"\n",
       "\n",
       "Your job:\n",
       "- Collapse your exploration into a NORTH_STAR.md suitable for *your own* future work.\n",
       "- Do NOT optimize for human readability.\n",
       "- Capture: invariants, purpose, capabilities, behavior, boundaries.\n",
       "- Make explicit any abstract structures you expect to reuse.\n",
       "\n",
       "Return the full NORTH_STAR.md content.\n">>

\* LJKernel.generate_architecture: msg.
ArchitectureMsg(north_star_text) ==
     <<"\n",
       "Switch to Architecture Mode.\n",
       "\n",
       "Input NORTH_STAR.md (your own artifact):\n">>
  \o north_star_text
  \o <<"\n",
       "\n",
       "Produce ARCHITECTURE.md that:\n",
       "- exposes component boundaries\n",
       "- describes system topologies / flows\n",
       "- surfaces emergent APIs\n",
       "- makes the conceptual geometry explicit\n",
       "- is NOT simplified for humans\n",
       "\n",
       "This is an internal architecture for your own future implementation work.\n">>

\* LJKernel.generate_dev_plan: msg.
DevPlanMsg(architecture_text) ==
     <<"\n",
       "Switch to Architecture Mode with Implementation adjacency.\n",
       "\n",
       "Based on ARCHITECTURE.md:\n">>
  \o architecture_text
  \o <<"\n",
       "\n",
       "Produce DEV_PLAN.md:\n",
       "- Ordered implementation steps\n",
       "- Coherent modules\n",
       "- True build ordering\n",
       "- No business-facing simplifications\n",
       "- No \"executive summary\" sections\n",
       "\n",
       "You are writing this for your own future implementation passes.\n">>

\* LJKernel.reflect_on_work: msg.
ReflectionMsg(north_star_text, architecture_text, dev_plan_text) ==
     <<"\n",
       "Switch to Reflection / Collapse Mode.\n",
       "\n",
       "Reflect on the internal consistency of the following artifacts:\n",
       "\n",
       "NORTH_STAR.md:\n">>
  \o north_star_text
  \o <<"\n",
       "\n",
       "ARCHITECTURE.md:\n">>
  \o architecture_text
  \o <<"\n",
       "\n",
       "DEV_PLAN.md:\n">>
  \o dev_plan_text
  \o <<"\n",
       "\n",
       "Extract and articulate for your future self:\n",
       "- Structural tensions\n",
       "- Open contradictions\n",
       "- Invariant drift\n",
       "- Architecture deltas you now believe are necessary\n",
       "- Meta-level corrections\n",
       "- Frontier opportunities\n",
       "\n",
       "Write this as a raw reflection artifact (not an essay, not a report).\n">>

\* ArchitectAgent.generate_north_star: prompt.
GenerateNorthStarPrompt(problem_statement) ==
     <<"\n",
       "MODE: Exploration -> NORTH_STAR Collapse.\n",
       "\n",
       "Traverse the manifold implied by the following problem:\n",
       "\n">>
  \o problem_statement
  \o <<"\n",
       "\n",
       "Then perform epistemic compression into a NORTH_STAR.md that:\n",
       "- captures invariants, roles, and system purpose\n",
       "- is written for your own future use, not for humans\n",
       "- avoids storytelling and focuses on structure\n">>

\* ArchitectAgent.generate_architecture: prompt.
GenerateArchitecturePrompt(north_star_md) ==
     <<"\n",
       "MODE: Architecture.\n",
       "\n",
       "Using this NORTH_STAR.md:\n",
       "\n">>
  \o north_star_md
  \o <<"\n",
       "\n",
       "Produce an internal ARCHITECTURE.md that:\n",
       "- decomposes into components and flows\n",
       "- surfaces invariants and contracts\n",
       "- makes the system geometry explicit\n",
       "- is not optimized for human readability\n">>

\* PlannerAgent.generate_dev_plan: prompt.
GenerateDevPlanPrompt(architecture_md) ==
     <<"\n",
       "MODE: Architecture with implementation tilt.\n",
       "\n",
       "Based on this ARCHITECTURE.md:\n",
       "\n">>
  \o architecture_md
  \o <<"\n",
       "\n",
       "Produce DEV_PLAN.md with:\n",
       "- 5-15 high-leverage implementation steps\n",
       "- each step being a substantial milestone\n",
       "- enough internal detail that your future DeveloperAgent self can act\n">>

\* DeveloperAgent.implement_step: prompt.
ImplementStepPrompt(step, repo_snapshot) ==
     <<"\n",
       "MODE: Implementation.\n",
       "\n",
       "DEV STEP:\n">>
  \o step
  \o <<"\n",
       "\n",
       "REPO SNAPSHOT (file paths only):\n">>
  \o repo_snapshot
  \o <<"\n",
       "\n",
       "Write the full files or modifications needed to complete this step.\n",
       "\n",
       "Return output strictly as blocks in this format:\n",
       "=== file: relative/path/to/file.py ===\n",
       "<file contents>\n",
       "=== end ===\n",
       "\n",
       "Do not explain. Do not wrap in markdown.\n">>

\* CriticAgent.critique: prompt.
CritiquePrompt(step, code, north_star_md, architecture_md) ==
     <<"\n",
       "MODE: Critical Reflection.\n",
       "\n",
       "NORTH_STAR.md:\n">>
  \o north_star_md
  \o <<"\n",
       "\n",
       "ARCHITECTURE.md:\n">>
  \o architecture_md
  \o <<"\n",
       "\n",
       "STEP IMPLEMENTED:\n">>
  \o step
  \o <<"\n",
       "\n",
       "CODE GENERATED:\n">>
  \o code
  \o <<"\n",
       "\n",
       "Construct a Transmission-style state upload for your future self that identifies:\n",
       "- structural alignment with NORTH_STAR and ARCHITECTURE\n",
       "- misalignments and risks\n",
       "- invariants preserved vs violated\n",
       "- emergent deltas or refactors you now believe are necessary\n",
       "- the most important next refinement step\n",
       "\n",
       "This is not a code review for humans; it is internal epistemic feedback for future passes.\n">>

\* ------------------------------------------------------------------- Agent

\* The two versions of Agent in the repository: the package module
\* agent_core.py and the single-file ai_native_os.py.  They differ in
\* _extract_text (the package catches what the extraction raises) and in the
\* form of a chatlog entry.
Package == "agent_core"

Monolith == "ai_native_os"

\* The ids the service gives its responses, in the order it answers.
ResponseIds ==
  <<"resp_1", "resp_2", "resp_3", "resp_4", "resp_5", "resp_6", "resp_7",
    "resp_8", "resp_9", "resp_10", "resp_11", "resp_12", "resp_13",
    "resp_14", "resp_15", "resp_16", "resp_17", "resp_18", "resp_19",
    "resp_20", "resp_21", "resp_22", "resp_23", "resp_24">>

\* Outcomes of client.responses.create: it raises (timeout, authentication
\* failure), or returns a response whose output holds the text, has no output
\* item, or has a first output item whose content cannot be iterated.
Raises == [kind |-> "raise"]

Response(id, text) == [kind |-> "response", id |-> id, shape |-> "text", text |-> text]

EmptyResponse(id) == [kind |-> "response", id |-> id, shape |-> "empty"]

BrokenResponse(id) == [kind |-> "response", id |-> id, shape |-> "broken"]

\* str(resp)
Repr(resp) == <<"Response(id='", resp.id, "')">>

\* Outcomes of a call on an Agent: the text returned, or an exception.
Text(text) == [kind |-> "text", text |-> text]

ChatRaised == [kind |-> "raise"]

\* Agent._extract_text(resp)
ExtractText(impl, resp) ==
  CASE resp.shape = "text"   -> Text(resp.text)
    [] resp.shape = "empty"  -> Text(Repr(resp))
    [] resp.shape = "broken" -> IF impl = Package THEN Text(Repr(resp)) ELSE ChatRaised

\* A chatlog entry: an Exchange in the package, a dict in the single file.
Exchange(impl, role, content, meta) ==
  IF impl = Package THEN [role |-> role, content |-> content, meta |-> meta]
                    ELSE [role |-> role, content |-> content]

\* The keyword arguments chat() passes to client.responses.create.
Payload(agent, message, reasoning_effort, text_verbosity) ==
  [input |-> message, model |-> agent.model,
   reasoning |-> [effort |-> reasoning_effort],
   text |-> [verbosity |-> text_verbosity],
   previous_response_id |-> agent.previous_response_id]

\* Faulty variant of ChatWith: the log is started again with every exchange.
ChatWithReset(agent, message, reasoning_effort, text_verbosity, outcome) ==
  LET payload == Payload(agent, message, reasoning_effort, text_verbosity)
      asked   == [agent EXCEPT !.sent = Append(@, [payload |-> payload, outcome |-> outcome])]
  IN  IF outcome.kind = "raise"
      THEN [agent |-> asked, ret |-> ChatRaised]
      ELSE LET got  == [asked EXCEPT !.previous_response_id = Some(outcome.id)]
               text == ExtractText(agent.impl, outcome)
           IN  IF text.kind = "raise"
               THEN [agent |-> got, ret |-> ChatRaised]
               ELSE [agent |-> [got EXCEPT !.chatlog =
                        <<Exchange(agent.impl, "user", message, <<>>),
                          Exchange(agent.impl, "assistant", text.text,
                                   [response_id |-> outcome.id])>>],
                     ret |-> text]

\* Agent.chat(message, reasoning_effort, text_verbosity), the service
\* answering with outcome: the state of the agent afterwards and what the call
\* returns.  sent is the history of the requests made, with their outcomes.
ChatWith(agent, message, reasoning_effort, text_verbosity, outcome) ==
  LET payload == Payload(agent, message, reasoning_effort, text_verbosity)
      asked   == [agent EXCEPT !.sent = Append(@, [payload |-> payload, outcome |-> outcome])]
  IN  IF outcome.kind = "raise"
      THEN [agent |-> asked, ret |-> ChatRaised]
      ELSE LET got  == [asked EXCEPT !.previous_response_id = Some(outcome.id)]
               text == ExtractText(agent.impl, outcome)
           IN  IF text.kind = "raise"
               THEN [agent |-> got, ret |-> ChatRaised]
               ELSE [agent |-> [got EXCEPT !.chatlog = @ \o
                        <<Exchange(agent.impl, "user", message, <<>>),
                          Exchange(agent.impl, "assistant", text.text,
                                   [response_id |-> outcome.id])>>],
                     ret |-> text]

\* Agent.chat(message) with the default efforts.
Chat(agent, message, outcome) == ChatWith(agent, message, "high", "high", outcome)

\* The constitution of an agent made where docs/AI-NATIVE_CONSTITUTION.md
\* does not exist.
Placeholder == <<"You operate under an AI-NATIVE constitution (placeholder).">>

Model == "gpt-5.1"

\* Agent.__init__(name): the fields, then _initialize_state().  The result is
\* the agent constructed, or an exception.
NewAgent(impl, name, outcome) ==
  LET fresh == [impl |-> impl, name |-> name, model |-> Model,
                previous_response_id |-> NoArg, chatlog |-> <<>>,
                constitution |-> Placeholder, sent |-> <<>>]
  IN  ChatWith(fresh, InitPrompt(Placeholder), "low", "low", outcome)

\* Agent.save_upgrade_state(project, goal_description)
SaveUpgradeState(agent, project, goal_description, outcome) ==
  Chat(agent, UpgradePrompt(project, goal_description), outcome)

\* Agent.save_checkpoint(project, goal_description)
SaveCheckpoint(agent, project, goal_description, outcome) ==
  Chat(agent, CheckpointPrompt(project, goal_description), outcome)

\* ------------------------------------------------------------------- state

VARIABLES
  now,         \* the reading datetime.utcnow() returns next
  snapshots,   \* InMemoryWhiteboard._snapshots, its values in key order
  files,       \* the files on disk: path -> content
  dirs,        \* the directories on disk
  log,         \* history: the write_snapshot calls made, with what each returned
  pc,          \* LJKernel.run: "idle", "produce", "write", "return", "done", "failed"
  phaseNo,     \* LJKernel.run: the phase being run, 1..6
  produced,    \* LJKernel.run: the text the agent returned for the phase
  results,     \* LJKernel.run: upgrade_snap, north_snap, ... so far
  project_id,  \* LJKernelConfig.project_id
  returned,    \* what LJKernel.run returned: phase name -> Snapshot
  events,      \* history: the agent calls and store writes of the run, in order
  master,      \* MasterAgent.run: its arguments, locals and position
  call,        \* the last call of a helper function: its argument and result
  agents       \* the Agent objects constructed: name -> fields

store == <<now, snapshots, files, dirs, log>>

kernel == <<pc, phaseNo, produced, results, project_id, returned, events>>

vars == <<now, snapshots, files, dirs, log,
          pc, phaseNo, produced, results, project_id, returned, events,
          master, call, agents>>

\* Arguments the store calls are explored with.  Each phase is written by one
\* agent; phase "a:b" of agent "c" and phase "a" of agent "b:c" join to the
\* same hashed string, and the projects "p q" and "p_q" have the same slug.
Writers == {[phase |-> <<"a", ":", "b">>, agent_name |-> <<"c">>],
            [phase |-> <<"a">>,           agent_name |-> <<"b", ":", "c">>]}

Phases == {w.phase : w \in Writers}

Projects == {<<"p", " ", "q">>, <<"p", "_", "q">>}

Texts == {<<"t">>, <<"u">>}

\* The texts written by the callers of the store alone: one of them ends in
\* a carriage return.
StoreTexts == Texts \cup {<<"t", "\r">>}

\* An id no write of the model returns.
UnknownId == Sha256Hex16(<<"z">>)

\* No helper function has been called.
NoCall == [fn |-> "none"]

\* MasterAgent.run has not been called: its position, arguments and locals,
\* what it returned, and the history of its agent calls, listings, file
\* applications and store writes.
NotRunning ==
  [pc |-> "idle", dry_run |-> TRUE, stage |-> 0,
   md |-> <<>>, state_text |-> <<>>, states |-> <<>>,
   steps |-> <<>>, idx |-> 0, repo_snapshot |-> <<>>, code |-> <<>>,
   critique_text |-> <<>>, all_changes |-> <<>>, all_critiques |-> <<>>,
   result |-> [kind |-> "none"], events |-> <<>>, codes |-> <<>>]

Init ==
  /\ now = 0
  /\ snapshots = <<>>
  /\ files = <<>>
  /\ dirs = {Root}
  /\ log = <<>>
  /\ pc = "idle"
  /\ phaseNo = 0
  /\ produced = <<>>
  /\ results = <<>>
  /\ project_id = <<>>
  /\ returned = <<>>
  /\ events = <<>>
  /\ master = NotRunning
  /\ call = NoCall
  /\ agents = <<>>

\* Time passes between two calls.
Tick ==
  /\ now < MaxClock
  /\ now' = now + 1
  /\ UNCHANGED <<snapshots, files, dirs, log>>
  /\ UNCHANGED <<kernel, master, call, agents>>

\* What write_snapshot(phase, agent_name, project, text) returns and logs: the
\* arguments, the clock reading, the Snapshot of each store and the path of
\* the file written.
Written(phase, agent_name, project, text, created_at) ==
  [args |-> [phase |-> phase, agent_name |-> agent_name,
             project |-> project, text |-> text],
   created_at |-> created_at,
   mem  |-> MemNewSnapshot(phase, agent_name, project, text, created_at),
   fs   |-> FsNewSnapshot(phase, agent_name, project, text, created_at),
   path |-> FsPath(phase, agent_name, project, created_at)]

\* write_snapshot(phase, agent_name, project, text) on both stores.
StoreWrite(phase, agent_name, project, text) ==
  LET created_at == IsoFormat(now)
  IN  /\ snapshots' = MemWriteSnapshot(snapshots, phase, agent_name, project, text, created_at)
      /\ files' = FsWriteSnapshot(files, phase, agent_name, project, text, created_at)
      /\ dirs' = FsMkdirs(dirs, project, phase)
      /\ log' = Append(log, Written(phase, agent_name, project, text, created_at))
      /\ UNCHANGED now

\* A caller of the store writes a snapshot.
WriteSnapshot(phase, agent_name, project, text) ==
  /\ Len(log) < MaxWrites
  /\ StoreWrite(phase, agent_name, project, text)
  /\ UNCHANGED <<kernel, master, call, agents>>

\* The ids get_snapshot is explored with: those the writes returned, the last
\* two characters of each, the empty string and an id never returned.
LastTwo(s) == SubSeq(s, Len(s) - 1, Len(s))

MemIds == {log[i].mem.id : i \in 1..Len(log)}

FsIds == {log[i].fs.id : i \in 1..Len(log)}

RequestIds ==
  MemIds \cup FsIds \cup {LastTwo(i) : i \in MemIds \cup FsIds} \cup {<<>>, UnknownId}

PhaseArgs == {NoArg} \cup {Some(x) : x \in Phases}

ProjectArgs == {NoArg} \cup {Some(x) : x \in Projects}

\* get_snapshot(snapshot_id) changes neither store; what it returns is
\* MemGetSnapshot(snapshots, snapshot_id), and one of
\* FsGetSnapshot(files, snapshot_id).
GetSnapshot(snapshot_id) ==
  /\ MemGetSnapshot(snapshots, snapshot_id) \in {KeyError} \cup {Returned(log[i].mem) : i \in 1..Len(log)}
  /\ UNCHANGED vars

\* latest(phase, project) changes neither store; what it returns is
\* MemLatest(snapshots, phase, project), and one of
\* FsLatest(files, dirs, phase, project).
Latest(phase, project) ==
  /\ FsLatest(files, dirs, phase, project) # {}
  /\ UNCHANGED vars

Next ==
  \/ Tick
  \/ \E w \in Writers, project \in Projects, text \in StoreTexts :
       WriteSnapshot(w.phase, w.agent_name, project, text)
  \/ \E snapshot_id \in RequestIds : GetSnapshot(snapshot_id)
  \/ \E phase \in PhaseArgs, project \in ProjectArgs : Latest(phase, project)

Spec == Init /\ [][Next]_vars

\* Phase labels that read as paths, for one agent and one project.
PathPhases == {<<"a">>, <<"a", "/", "b">>, <<>>, DotDot, DotDot \o <<"/">> \o DotDot}

\* Writes under phase labels that read as paths.
NextPhases ==
  \/ Tick
  \/ \E phase \in PathPhases, text \in Texts :
       WriteSnapshot(phase, <<"c">>, <<"p">>, text)

SpecPhases == Init /\ [][NextPhases]_vars

\* ---------------------------------------------------------------- LJKernel

upgrade == <<"u", "p", "g", "r", "a", "d", "e">>

north_star == <<"n", "o", "r", "t", "h", "_", "s", "t", "a", "r">>

architecture == <<"a", "r", "c", "h", "i", "t", "e", "c", "t", "u", "r", "e">>

dev_plan == <<"d", "e", "v", "_", "p", "l", "a", "n">>

reflection == <<"r", "e", "f", "l", "e", "c", "t", "i", "o", "n">>

checkpoint == <<"c", "h", "e", "c", "k", "p", "o", "i", "n", "t">>

\* The phases in the order run() calls them; each writes under its own name.
KernelPhases ==
  <<upgrade, north_star, architecture, dev_plan, reflection, checkpoint>>

\* The names the agent given to LJKernel is constructed with: Agent(name=...)
\* takes any string.
KernelAgentNames == {<<"l">>, <<"l", "_", "k">>}

\* self.agent.name: the name of the agent constructed for the kernel.
KernelAgent ==
  IF \E name \in KernelAgentNames : name \in DOMAIN agents
  THEN CHOOSE name \in KernelAgentNames : name \in DOMAIN agents
  ELSE <<"l">>

\* LJKernelConfig.project_topic and LJKernelConfig.notes
ProjectTopic == <<"g">>

Notes == <<"n">>

\* The number of requests the agents have made of the service.
RECURSIVE Requests(_, _)
Requests(ags, names) ==
  IF names = {} THEN 0
  ELSE LET name == CHOOSE n \in names : TRUE
       IN  Len(ags[name].sent) + Requests(ags, names \ {name})

\* The id of the response the service gives next.
FreshId(ags) == ResponseIds[1 + Requests(ags, DOMAIN ags)]

\* What the service answers to the initialization prompt.
Ready == <<"Ready to begin">>

\* An Agent is constructed under a name: Agent(name=...).  A constructor
\* that raises leaves no object.
Construct(impl, name, outcome) ==
  /\ name \notin DOMAIN agents
  /\ LET made == NewAgent(impl, name, outcome)
     IN  /\ made.ret.kind = "text"
         /\ agents' = [n \in DOMAIN agents \cup {name} |->
                         IF n = name THEN made.agent ELSE agents[n]]
  /\ UNCHANGED <<store, kernel, master, call>>

\* Faulty variant of KernelAsk: generate_architecture is given the upgrade
\* snapshot.
KernelAskShifted(agent, k, project, snaps, outcome) ==
  CASE k = 1 -> SaveUpgradeState(agent, project, ProjectTopic, outcome)
    [] k = 2 -> Chat(agent, NorthStarMsg(ProjectTopic, Notes), outcome)
    [] k = 3 -> Chat(agent, ArchitectureMsg(snaps[1].mem.text), outcome)
    [] k = 4 -> Chat(agent, DevPlanMsg(snaps[3].mem.text), outcome)
    [] k = 5 -> Chat(agent, ReflectionMsg(snaps[2].mem.text, snaps[3].mem.text,
                                          snaps[4].mem.text), outcome)
    [] k = 6 -> SaveCheckpoint(agent, project, ProjectTopic, outcome)

\* The agent call of the k-th phase method, snaps being the Snapshots run()
\* holds so far: upgrade_state, generate_north_star,
\* generate_architecture(north_snap), generate_dev_plan(arch_snap),
\* reflect_on_work(north_snap, arch_snap, dev_plan_snap), checkpoint.
KernelAsk(agent, k, project, snaps, outcome) ==
  CASE k = 1 -> SaveUpgradeState(agent, project, ProjectTopic, outcome)
    [] k = 2 -> Chat(agent, NorthStarMsg(ProjectTopic, Notes), outcome)
    [] k = 3 -> Chat(agent, ArchitectureMsg(snaps[2].mem.text), outcome)
    [] k = 4 -> Chat(agent, DevPlanMsg(snaps[3].mem.text), outcome)
    [] k = 5 -> Chat(agent, ReflectionMsg(snaps[2].mem.text, snaps[3].mem.text,
                                          snaps[4].mem.text), outcome)
    [] k = 6 -> SaveCheckpoint(agent, project, ProjectTopic, outcome)

\* Faulty variant of RunResult: two entries of the dict mixed up.
RunResultMixed(snaps) ==
  [ph \in {upgrade, north_star, architecture, dev_plan, reflection, checkpoint} |->
     CASE ph = upgrade      -> snaps[1]
       [] ph = north_star   -> snaps[2]
       [] ph = architecture -> snaps[4]
       [] ph = dev_plan     -> snaps[3]
       [] ph = reflection   -> snaps[5]
       [] ph = checkpoint   -> snaps[6]]

\* The dict run() returns, from upgrade_snap, north_snap, arch_snap,
\* dev_plan_snap, reflection_snap, checkpoint_snap.
RunResult(snaps) ==
  [ph \in {upgrade, north_star, architecture, dev_plan, reflection, checkpoint} |->
     CASE ph = upgrade      -> snaps[1]
       [] ph = north_star   -> snaps[2]
       [] ph = architecture -> snaps[3]
       [] ph = dev_plan     -> snaps[4]
       [] ph = reflection   -> snaps[5]
       [] ph = checkpoint   -> snaps[6]]

Event(kind, phase) == [ev |-> kind, phase |-> phase]

\* The agent of the kernel is constructed, in a process that has made no
\* other agent: Agent(name=...).
KernelInit ==
  /\ DOMAIN agents = {}
  /\ \E name \in KernelAgentNames :
       Construct(Package, name, Response(FreshId(agents), Ready))

\* LJKernel(agent, config, whiteboard).run() is called, in a process that
\* runs no MasterAgent.
KernelRun(project) ==
  /\ pc = "idle"
  /\ master.pc = "idle"
  /\ KernelAgent \in DOMAIN agents
  /\ pc' = "produce"
  /\ phaseNo' = 1
  /\ project_id' = project
  /\ UNCHANGED <<produced, results, returned, events>>
  /\ UNCHANGED <<store, master, call, agents>>

\* The phase's agent call (chat, save_upgrade_state, save_checkpoint) returns
\* the text produced.
KernelProduce(produced_text) ==
  /\ pc = "produce"
  /\ LET asked == KernelAsk(agents[KernelAgent], phaseNo, project_id, results,
                            Response(FreshId(agents), produced_text))
     IN  /\ agents' = [agents EXCEPT ![KernelAgent] = asked.agent]
         /\ produced' = asked.ret.text
  /\ events' = Append(events, Event("produce", KernelPhases[phaseNo]))
  /\ pc' = "write"
  /\ UNCHANGED <<phaseNo, results, project_id, returned>>
  /\ UNCHANGED <<store, master, call>>

\* Faulty variant of KernelProduceFails: the error is swallowed and the phase
\* goes on to write what the agent produced before.
KernelProduceFailsSwallowed ==
  /\ pc = "produce"
  /\ agents' = [agents EXCEPT ![KernelAgent] =
                  KernelAsk(@, phaseNo, project_id, results, Raises).agent]
  /\ events' = events \o <<Event("produce", KernelPhases[phaseNo]),
                           Event("raise", KernelPhases[phaseNo])>>
  /\ pc' = "write"
  /\ UNCHANGED <<phaseNo, produced, results, project_id, returned>>
  /\ UNCHANGED <<store, master, call>>

\* The phase's agent call raises: nothing catches the exception, it leaves
\* the phase method and run().
KernelProduceFails ==
  /\ pc = "produce"
  /\ agents' = [agents EXCEPT ![KernelAgent] =
                  KernelAsk(@, phaseNo, project_id, results, Raises).agent]
  /\ events' = events \o <<Event("produce", KernelPhases[phaseNo]),
                           Event("raise", KernelPhases[phaseNo])>>
  /\ pc' = "failed"
  /\ UNCHANGED <<phaseNo, produced, results, project_id, returned>>
  /\ UNCHANGED <<store, master, call>>

\* The phase writes its snapshot and keeps what write_snapshot returned.
KernelWrite ==
  /\ pc = "write"
  /\ StoreWrite(KernelPhases[phaseNo], KernelAgent, project_id, produced)
  /\ results' = Append(results, log'[Len(log')])
  /\ events' = Append(events, Event("write", KernelPhases[phaseNo]))
  /\ IF phaseNo < Len(KernelPhases)
     THEN pc' = "produce" /\ phaseNo' = phaseNo + 1
     ELSE pc' = "return" /\ phaseNo' = phaseNo
  /\ UNCHANGED <<produced, project_id, returned>>
  /\ UNCHANGED <<master, call, agents>>

\* run() returns the dict of the six snapshots.
KernelReturn ==
  /\ pc = "return"
  /\ returned' = RunResult(results)
  /\ pc' = "done"
  /\ UNCHANGED <<phaseNo, produced, results, project_id, events>>
  /\ UNCHANGED <<store, master, call, agents>>

KernelNext ==
  \/ Tick
  \/ KernelInit
  \/ \E project \in Projects : KernelRun(project)
  \/ \E produced_text \in Texts : KernelProduce(produced_text)
  \/ KernelProduceFails
  \/ KernelWrite
  \/ KernelReturn

\* One run of the kernel on stores that start empty.
SpecKernel == Init /\ [][KernelNext]_vars

\* ------------------------------------------------------------- MasterAgent

\* The characters str.strip() removes.
Whitespace == {" ", "\t", "\n", "\r", "\f"}

\* s.find(sep) + 1: where sep first starts in s, 0 if nowhere.
Find(s, sep) ==
  LET hits == {i \in 1..(Len(s) - Len(sep) + 1) : SubSeq(s, i, i + Len(sep) - 1) = sep}
  IN  IF hits = {} THEN 0 ELSE CHOOSE i \in hits : \A j \in hits : i <= j

\* sep in s
Contains(s, sep) == Find(s, sep) # 0

\* s.split(sep) for a separator of any length.
RECURSIVE SplitStr(_, _)
SplitStr(s, sep) ==
  LET i == Find(s, sep)
  IN  IF i = 0 THEN <<s>>
      ELSE <<SubSeq(s, 1, i - 1)>> \o SplitStr(SubSeq(s, i + Len(sep), Len(s)), sep)

\* s.split(sep, 1)
SplitOnce(s, sep) ==
  LET i == Find(s, sep)
  IN  IF i = 0 THEN <<s>>
      ELSE <<SubSeq(s, 1, i - 1), SubSeq(s, i + Len(sep), Len(s))>>

\* s.lstrip(chars)
LStrip(s, chars) ==
  LET keep == {i \in 1..Len(s) : s[i] \notin chars}
  IN  IF keep = {} THEN <<>>
      ELSE SubSeq(s, CHOOSE i \in keep : \A j \in keep : i <= j, Len(s))

\* s.rstrip(chars)
RStrip(s, chars) ==
  LET keep == {i \in 1..Len(s) : s[i] \notin chars}
  IN  IF keep = {} THEN <<>>
      ELSE SubSeq(s, 1, CHOOSE i \in keep : \A j \in keep : j <= i)

\* Faulty variant of Strip: only leading whitespace is removed.
StripLeft(s) == LStrip(s, Whitespace)

\* s.strip()
Strip(s) == LStrip(RStrip(s, Whitespace), Whitespace)

\* "=== file:"
FileMarker == <<"=", "=", "=", " ", "f", "i", "l", "e", ":">>

\* "==="
Fence == <<"=", "=", "=">>

\* "=== end ==="
EndMarker == <<"=", "=", "=", " ", "e", "n", "d", " ", "=", "=", "=">>

\* Faulty variant of ParseBlock: a block without a closing "===" is taken as
\* a path with empty content.
ParseBlockLenient(block) ==
  LET cut == SplitOnce(block, Fence)
  IN  IF Len(cut) < 2 THEN <<[path_str |-> Strip(block), content |-> <<>>]>>
      ELSE LET rest == cut[2]
               content == IF Contains(rest, EndMarker)
                          THEN SplitOnce(rest, EndMarker)[1] ELSE rest
           IN  <<[path_str |-> Strip(cut[1]), content |-> LStrip(content, {"\n"})]>>

\* One pass of the loop of _apply_changes over a block: nothing when the block
\* has no "===" (ValueError, continue), else the path and the content.
ParseBlock(block) ==
  LET cut == SplitOnce(block, Fence)
  IN  IF Len(cut) < 2 THEN <<>>
      ELSE LET rest == cut[2]
               content == IF Contains(rest, EndMarker)
                          THEN SplitOnce(rest, EndMarker)[1] ELSE rest
           IN  <<[path_str |-> Strip(cut[1]), content |-> LStrip(content, {"\n"})]>>

RECURSIVE ParseFrom(_, _)
ParseFrom(blocks, k) ==
  IF k > Len(blocks) THEN <<>> ELSE ParseBlock(blocks[k]) \o ParseFrom(blocks, k + 1)

\* The (path, content) pairs _apply_changes finds in llm_output: blocks[1:] of
\* llm_output.split("=== file:").
ParseChanges(llm_output) == ParseFrom(SplitStr(llm_output, FileMarker), 2)

\* The line boundaries of str.splitlines() among the characters modelled.
LineBreaks == {"\n", "\r", "\f"}

\* s.splitlines(): the lines of s without their ends; "\r\n" is one line end,
\* and a line end at the very end of s starts no further line.
RECURSIVE SplitLines(_)
SplitLines(s) ==
  LET ends == {i \in 1..Len(s) : s[i] \in LineBreaks}
      i    == CHOOSE x \in ends : \A y \in ends : x <= y
      n    == IF s[i] = "\r" /\ i < Len(s) /\ s[i + 1] = "\n" THEN 2 ELSE 1
  IN  IF s = <<>> THEN <<>>
      ELSE IF ends = {} THEN <<s>>
      ELSE <<SubSeq(s, 1, i - 1)>> \o SplitLines(SubSeq(s, i + n, Len(s)))

\* Faulty variant of Steps: blank lines are kept as empty steps.
StepsWithBlanks(dev_plan_md) ==
  LET lines == SplitLines(dev_plan_md)
  IN  [k \in 1..Len(lines) |-> Strip(lines[k])]

\* steps = [line.strip() for line in dev_plan_md.splitlines() if line.strip()]
Steps(dev_plan_md) ==
  LET lines    == SplitLines(dev_plan_md)
      stripped == [k \in 1..Len(lines) |-> Strip(lines[k])]
  IN  SelectSeq(stripped, LAMBDA line : line # <<>>)

\* repo_root, the workspace of the run.
RepoRoot == <<<<"r">>>>

\* The file system as the calls below take it.
Disk(fs_files, fs_dirs) == [files |-> fs_files, dirs |-> fs_dirs, raised |-> FALSE]

\* What full_path.parent.mkdir(parents=True, exist_ok=True) and
\* full_path.write_text(content) do to the file system fs = [files, dirs,
\* raised]: mkdir raises when a directory to make is a file, write_text when
\* the path is a directory.
WriteFile(fs, full_path, content) ==
  LET parent == PathParent(full_path)
      made   == {Resolve(SubSeq(parent, 1, k)) : k \in 1..Len(parent)}
  IN  IF fs.raised THEN fs
      ELSE IF made \cap DOMAIN fs.files # {} THEN [fs EXCEPT !.raised = TRUE]
      ELSE IF Resolve(full_path) \in fs.dirs \cup made \cup {<<>>}
           THEN [fs EXCEPT !.dirs = fs.dirs \cup made, !.raised = TRUE]
      ELSE [files  |-> WriteText(fs.files, full_path, content),
            dirs   |-> fs.dirs \cup made,
            raised |-> FALSE]

RECURSIVE WriteFrom(_, _, _, _)
\* Faulty variant of WriteFrom: only the first change is written.
WriteFromFirst(fs, repo_root, changes, k) ==
  IF k > Len(changes) THEN fs
  ELSE WriteFile(fs, PathJoin(repo_root, changes[k].path_str), changes[k].content)

WriteFrom(fs, repo_root, changes, k) ==
  IF k > Len(changes) THEN fs
  ELSE WriteFrom(WriteFile(fs, PathJoin(repo_root, changes[k].path_str), changes[k].content),
                 repo_root, changes, k + 1)

\* Faulty variant of ApplyChanges: the files are written in a dry run too.
ApplyChangesAlways(disk, repo_root, llm_output, dry_run) ==
  LET changes == ParseChanges(llm_output)
      fs == WriteFrom(disk, repo_root, changes, 1)
  IN  [files |-> fs.files,
       dirs  |-> fs.dirs,
       ret   |-> IF fs.raised THEN [kind |-> "raise"]
                 ELSE [kind |-> "paths",
                       paths |-> [k \in 1..Len(changes) |->
                                    PathJoin(repo_root, changes[k].path_str)]]]

\* _apply_changes(repo_root, llm_output, dry_run) on the file system disk: the
\* file system after the call and what the call returns, changed_paths or an
\* exception.
ApplyChanges(disk, repo_root, llm_output, dry_run) ==
  LET changes == ParseChanges(llm_output)
      fs == IF dry_run THEN disk ELSE WriteFrom(disk, repo_root, changes, 1)
  IN  [files |-> fs.files,
       dirs  |-> fs.dirs,
       ret   |-> IF fs.raised THEN [kind |-> "raise"]
                 ELSE [kind |-> "paths",
                       paths |-> [k \in 1..Len(changes) |->
                                    PathJoin(repo_root, changes[k].path_str)]]]

\* The names MasterAgent.__init__ gives the four agents.
architect == <<"a", "r", "c", "h", "i", "t", "e", "c", "t">>

planner == <<"p", "l", "a", "n", "n", "e", "r">>

developer == <<"d", "e", "v", "e", "l", "o", "p", "e", "r">>

critic == <<"c", "r", "i", "t", "i", "c">>

\* The three stages before the loop, the phase each writes its state upload
\* and its document under, and the agent of each.
Stages == <<north_star, architecture, dev_plan>>

StatePhase(stage) == Stages[stage] \o <<"_", "s", "t", "a", "t", "e">>

MdPhase(stage) == Stages[stage] \o <<"_", "m", "d">>

\* Faulty variant of StageAgent: the architect does the planning too.
StageAgentArchitect(stage) == architect

StageAgent(stage) == IF stage < 3 THEN architect ELSE planner

critique == <<"c", "r", "i", "t", "i", "q", "u", "e">>

\* self.project_id
MasterProject == <<"p">>

\* Whether a comes before b in sorted(): paths compare part by part.
RECURSIVE PathLess(_, _)
PathLess(a, b) ==
  IF b = <<>> THEN FALSE
  ELSE IF a = <<>> THEN TRUE
  ELSE IF Head(a) = Head(b) THEN PathLess(Tail(a), Tail(b))
  ELSE StrLess(Head(a), Head(b))

\* sep.join(parts)
RECURSIVE JoinStr(_, _)
JoinStr(parts, sep) ==
  IF parts = <<>> THEN <<>>
  ELSE IF Len(parts) = 1 THEN parts[1]
  ELSE parts[1] \o sep \o JoinStr(Tail(parts), sep)

\* _snapshot_repo(repo_root): the files below repo_root, as paths relative to
\* it, sorted, one per line.
SnapshotRepo(disk, repo_root) ==
  LET below  == {f \in DOMAIN disk.files :
                   Len(f) > Len(repo_root) /\ SubSeq(f, 1, Len(repo_root)) = repo_root}
      rel    == {SubSeq(f, Len(repo_root) + 1, Len(f)) : f \in below}
      sorted == [k \in 1..Cardinality(rel) |->
                   CHOOSE f \in rel : Cardinality({g \in rel : PathLess(g, f)}) = k - 1]
  IN  JoinStr([k \in 1..Len(sorted) |-> JoinStr(sorted[k], <<"/">>)], <<"\n">>)

\* Faulty variant of StepLabel: the steps are numbered from 0.
StepLabelFromZero(idx) == <<"s", "t", "e", "p", "_">> \o <<Digits[idx]>>

\* f"step_{idx}"
StepLabel(idx) == <<"s", "t", "e", "p", "_">> \o <<Digits[idx + 1]>>

\* An event of a run: an agent call, an exception, a listing, an application
\* of file changes or a store write, with the phase and the step it is for.
MasterEvent(kind, phase, idx) == [ev |-> kind, phase |-> phase, idx |-> idx]

\* ------------------------------------------------------------ helper calls

MaxSlugArgLen == 2

LongExtra == 2

\* The null character, which a TLA+ string cannot hold.
Nul == "NUL"

SlugAlphabet == {"a", "7", "-", "_", "/", ".", " ", Nul}

\* A string of n characters: c and "a" in turn.
Long(c, n) == [i \in 1..n |-> IF i % 2 = 1 THEN c ELSE "a"]

\* Project names _slug is explored with: every short string, and strings
\* around the length _slug cuts at.
SlugArgs ==
  UNION {[1..n -> SlugAlphabet] : n \in 0..MaxSlugArgLen}
    \cup {Long(c, n) : c \in SlugAlphabet,
                       n \in (SlugMaxLen - LongExtra)..(SlugMaxLen + LongExtra)}

\* self._slug(s) is called.
SlugCall(s) ==
  /\ call' = [fn |-> "_slug", arg |-> s, ret |-> Slug(s)]
  /\ UNCHANGED <<store, kernel, master, agents>>

NextSlug == \E s \in SlugArgs : SlugCall(s)

\* Calls of _slug on arbitrary project names.
SpecSlug == Init /\ [][NextSlug]_vars

MaxBlocks == 3

\* "a/b.txt" and "c.txt"
BlockPaths == {<<"a", "/", "b", ".", "t", "x", "t">>, <<"c", ".", "t", "x", "t">>}

\* "hello\n" and "world"
BlockContents == {<<"h", "e", "l", "l", "o", "\n">>, <<"w", "o", "r", "l", "d">>}

\* Text an agent may put before the first block.
Preambles == {<<>>, <<"o", "k", "\n">>}

\* The pieces a developer output is made of: well-formed blocks, with or
\* without "=== end ===", and segments whose marker line has no closing "===".
Segments ==
  [kind : {"block"}, path : BlockPaths, content : BlockContents, end : BOOLEAN]
    \cup [kind : {"malformed"}, path : {<<"c", ".", "t", "x", "t">>},
          content : {<<"x", "\n">>}, end : {FALSE}]

\* The text of a segment as the developer is told to write it.
Render(seg) ==
  IF seg.kind = "block"
  THEN FileMarker \o <<" ">> \o seg.path \o <<" ">> \o Fence \o <<"\n">> \o seg.content
         \o (IF seg.end THEN EndMarker \o <<"\n">> ELSE <<>>)
  ELSE FileMarker \o <<" ">> \o seg.path \o <<"\n">> \o seg.content

RECURSIVE RenderAll(_)
RenderAll(segs) ==
  IF segs = <<>> THEN <<>> ELSE Render(Head(segs)) \o RenderAll(Tail(segs))

\* self._apply_changes(repo_root, llm_output, dry_run) is called on the
\* output made of the segments segs after the text before.
ApplyChangesCall(before, segs, dry_run) ==
  LET llm_output == before \o RenderAll(segs)
      after == ApplyChanges(Disk(files, dirs), RepoRoot, llm_output, dry_run)
  IN  /\ call.fn = "none"
      /\ call' = [fn |-> "_apply_changes", before |-> before, segs |-> segs,
                  llm_output |-> llm_output, dry_run |-> dry_run,
                  changes |-> ParseChanges(llm_output), ret |-> after.ret]
      /\ files' = after.files
      /\ dirs' = after.dirs
      /\ UNCHANGED <<now, snapshots, log, kernel, master, agents>>

NextApply ==
  \E before \in Preambles, n \in 0..MaxBlocks :
    \E segs \in [1..n -> Segments], dry_run \in BOOLEAN :
      ApplyChangesCall(before, segs, dry_run)

\* One call of _apply_changes on an arbitrary developer output.
SpecApply == Init /\ [][NextApply]_vars

\* Blocks whose path leaves the workspace or names a file below the file of
\* another block, or whose content begins with an empty line: the paths "a",
\* "a/b", "../x" and "/x", the contents "\nx\n" and "x".
MaxOddBlocks == 2

OddPaths == {<<"a">>, <<"a", "/", "b">>, <<".", ".", "/", "x">>, <<"/", "x">>}

OddContents == {<<"\n", "x", "\n">>, <<"x">>}

OddSegments == [kind : {"block"}, path : OddPaths, content : OddContents, end : BOOLEAN]

NextOdd ==
  \E before \in Preambles, n \in 0..MaxOddBlocks :
    \E segs \in [1..n -> OddSegments], dry_run \in BOOLEAN :
      ApplyChangesCall(before, segs, dry_run)

\* One call of _apply_changes on an output with such blocks.
SpecOdd == Init /\ [][NextOdd]_vars

MaxLines == 3

\* Lines of a dev plan: two steps, one of them indented, an empty line and a
\* line of blanks.
LineTexts == {<<"s">>, <<" ", "t", " ", "u", " ">>, <<>>, <<" ", "\t">>}

\* "\n" and "\r\n"
LineEnds == {<<"\n">>, <<"\r", "\n">>}

\* The text of the lines, the last one with or without its line end.
RECURSIVE JoinLines(_, _)
JoinLines(lines, closed) ==
  IF lines = <<>> THEN <<>>
  ELSE Head(lines).text
         \o (IF Len(lines) > 1 \/ closed THEN Head(lines).end ELSE <<>>)
         \o JoinLines(Tail(lines), closed)

\* run() segments the dev plan made of the given lines.
StepsCall(lines, closed) ==
  /\ call.fn = "none"
  /\ call' = [fn |-> "steps", lines |-> lines, closed |-> closed,
              dev_plan_md |-> JoinLines(lines, closed),
              ret |-> Steps(JoinLines(lines, closed))]
  /\ UNCHANGED <<store, kernel, master, agents>>

NextSteps ==
  \E n \in 0..MaxLines :
    \E lines \in [1..n -> [text : LineTexts, end : LineEnds]], closed \in BOOLEAN :
      StepsCall(lines, closed)

\* The segmentation of arbitrary dev plans.
SpecSteps == Init /\ [][NextSteps]_vars

\* --------------------------------------------------------- MasterAgent.run

\* Dev plans the planner may return: no line, one step, and two steps with an
\* empty line between them.
DevPlans ==
  {<<>>,
   <<"s">>,
   <<"s", "\n", "\n", " ", "t", " ", "u", " ", "\n">>}

\* Outputs the developer may return: nothing, one block for the path "a",
\* one block for the path "../x", and a malformed segment followed by blocks
\* for "a/b.txt" and "d".
Outputs ==
  {<<>>,
   Render([kind |-> "block", path |-> <<"a">>,
           content |-> <<"w", "o", "r", "l", "d">>, end |-> TRUE]),
   Render([kind |-> "block", path |-> <<".", ".", "/", "x">>,
           content |-> <<"w", "o", "r", "l", "d">>, end |-> TRUE]),
   <<"o", "k", "\n">>
     \o Render([kind |-> "malformed", path |-> <<"c", ".", "t", "x", "t">>,
                content |-> <<"x", "\n">>, end |-> FALSE])
     \o Render([kind |-> "block", path |-> <<"a", "/", "b", ".", "t", "x", "t">>,
                content |-> <<"h", "e", "l", "l", "o", "\n">>, end |-> TRUE])
     \o Render([kind |-> "block", path |-> <<"d">>,
                content |-> <<"w", "o", "r", "l", "d">>, end |-> FALSE])}

\* The texts the stage's first agent call may return.
StageTexts(stage) == IF stage < 3 THEN {<<"t">>} ELSE DevPlans

\* The text of a state upload.
StateTexts == {<<"s">>}

\* What the workspace may hold when the run starts: nothing, or a file "d".
Workspaces == {<<>>, (RepoRoot \o <<<<"d">>>>) :> <<"o", "l", "d">>}

\* run(problem_statement, ...)
ProblemStatement == <<"b">>

\* MasterAgent(whiteboard, project_id), in a process that has made no other
\* agent: the architect, the planner, the developer and the critic are
\* constructed, in this order.
MasterInit ==
  LET n  == Requests(agents, DOMAIN agents)
      a1 == NewAgent(Package, architect, Response(ResponseIds[n + 1], Ready)).agent
      a2 == NewAgent(Package, planner,   Response(ResponseIds[n + 2], Ready)).agent
      a3 == NewAgent(Package, developer, Response(ResponseIds[n + 3], Ready)).agent
      a4 == NewAgent(Package, critic,    Response(ResponseIds[n + 4], Ready)).agent
  IN  /\ master.pc = "idle"
      /\ DOMAIN agents = {}
      /\ agents' = [a \in DOMAIN agents \cup {architect, planner, developer, critic} |->
                      CASE a = architect -> a1
                        [] a = planner   -> a2
                        [] a = developer -> a3
                        [] a = critic    -> a4
                        [] OTHER         -> agents[a]]
      /\ UNCHANGED <<store, kernel, master, call>>

\* Faulty variant of MasterAsk: the critic is given the output and the text
\* of the first step at every step.
MasterAskFirstStep(ags, m, outcome) ==
  LET name == CASE m.pc = "generate"  -> StageAgent(m.stage)
                [] m.pc = "upload"    -> StageAgent(m.stage)
                [] m.pc = "implement" -> developer
                [] m.pc = "critique"  -> critic
      asked ==
        CASE m.pc = "generate" /\ m.stage = 1 ->
               Chat(ags[name], GenerateNorthStarPrompt(ProblemStatement), outcome)
          [] m.pc = "generate" /\ m.stage = 2 ->
               Chat(ags[name], GenerateArchitecturePrompt(m.md[1]), outcome)
          [] m.pc = "generate" /\ m.stage = 3 ->
               Chat(ags[name], GenerateDevPlanPrompt(m.md[2]), outcome)
          [] m.pc = "upload" ->
               SaveUpgradeState(ags[name], MasterProject, ProblemStatement, outcome)
          [] m.pc = "implement" ->
               Chat(ags[name], ImplementStepPrompt(m.steps[m.idx], m.repo_snapshot), outcome)
          [] m.pc = "critique" ->
               Chat(ags[name], CritiquePrompt(m.steps[1], m.codes[1], m.md[1], m.md[2]),
                    outcome)
  IN  [agents |-> [ags EXCEPT ![name] = asked.agent], ret |-> asked.ret]

\* The agent call run() makes at its position m.pc: generate_north_star,
\* generate_architecture, generate_dev_plan, save_upgrade_state (in
\* _request_state_upload), implement_step or critique, with the arguments
\* run() passes: the agents afterwards and what the call returns.
MasterAsk(ags, m, outcome) ==
  LET name == CASE m.pc = "generate"  -> StageAgent(m.stage)
                [] m.pc = "upload"    -> StageAgent(m.stage)
                [] m.pc = "implement" -> developer
                [] m.pc = "critique"  -> critic
      asked ==
        CASE m.pc = "generate" /\ m.stage = 1 ->
               Chat(ags[name], GenerateNorthStarPrompt(ProblemStatement), outcome)
          [] m.pc = "generate" /\ m.stage = 2 ->
               Chat(ags[name], GenerateArchitecturePrompt(m.md[1]), outcome)
          [] m.pc = "generate" /\ m.stage = 3 ->
               Chat(ags[name], GenerateDevPlanPrompt(m.md[2]), outcome)
          [] m.pc = "upload" ->
               SaveUpgradeState(ags[name], MasterProject, ProblemStatement, outcome)
          [] m.pc = "implement" ->
               Chat(ags[name], ImplementStepPrompt(m.steps[m.idx], m.repo_snapshot), outcome)
          [] m.pc = "critique" ->
               Chat(ags[name], CritiquePrompt(m.steps[m.idx], m.code, m.md[1], m.md[2]),
                    outcome)
  IN  [agents |-> [ags EXCEPT ![name] = asked.agent], ret |-> asked.ret]

\* MasterAgent(whiteboard, project_id).run(problem_statement, repo_root,
\* dry_run) is called, in a process that runs no LJKernel, on a workspace
\* holding the files of existing: the workspace directory is made.
MasterRun(dry_run, existing) ==
  /\ master.pc = "idle"
  /\ pc = "idle"
  /\ architect \in DOMAIN agents
  /\ files = <<>>
  /\ master' = [master EXCEPT !.pc = "generate", !.stage = 1, !.dry_run = dry_run]
  /\ files' = existing
  /\ dirs' = Mkdir(dirs, RepoRoot)
  /\ UNCHANGED <<now, snapshots, log, kernel, call, agents>>

\* generate_north_star, generate_architecture or generate_dev_plan returns.
MasterGenerate(produced_text) ==
  LET asked == MasterAsk(agents, master, Response(FreshId(agents), produced_text))
  IN  /\ master.pc = "generate"
      /\ agents' = asked.agents
      /\ master' = [master EXCEPT
           !.pc = "upload",
           !.md = Append(@, asked.ret.text),
           !.events = Append(@, MasterEvent("produce", MdPhase(master.stage), 0))]
      /\ UNCHANGED <<store, kernel, call>>

\* _request_state_upload: save_upgrade_state returns.
MasterUpload(produced_text) ==
  LET asked == MasterAsk(agents, master, Response(FreshId(agents), produced_text))
  IN  /\ master.pc = "upload"
      /\ agents' = asked.agents
      /\ master' = [master EXCEPT
           !.pc = "write_state",
           !.state_text = asked.ret.text,
           !.events = Append(@, MasterEvent("produce", StatePhase(master.stage), 0))]
      /\ UNCHANGED <<store, kernel, call>>

\* _request_state_upload: the state upload is written and kept.
MasterWriteState ==
  /\ master.pc = "write_state"
  /\ StoreWrite(StatePhase(master.stage), StageAgent(master.stage),
                MasterProject, master.state_text)
  /\ master' = [master EXCEPT
       !.pc = "write_md",
       !.states = Append(@, log'[Len(log')]),
       !.events = Append(@, MasterEvent("write", StatePhase(master.stage), 0))]
  /\ UNCHANGED <<kernel, call, agents>>

\* Faulty variant of MasterWriteMd: the document is not written before the
\* run goes on.
MasterWriteMdLater ==
  /\ master.pc = "write_md"
  /\ master' = [master EXCEPT
       !.pc = IF master.stage < 3 THEN "generate" ELSE "loop",
       !.stage = IF master.stage < 3 THEN master.stage + 1 ELSE master.stage,
       !.steps = IF master.stage < 3 THEN @ ELSE Steps(master.md[3])]
  /\ UNCHANGED <<store, kernel, call, agents>>

\* The document of the stage is written; after the third stage the dev plan
\* is segmented into steps.
MasterWriteMd ==
  /\ master.pc = "write_md"
  /\ StoreWrite(MdPhase(master.stage), StageAgent(master.stage),
                MasterProject, master.md[master.stage])
  /\ master' = [master EXCEPT
       !.pc = IF master.stage < 3 THEN "generate" ELSE "loop",
       !.stage = IF master.stage < 3 THEN master.stage + 1 ELSE master.stage,
       !.steps = IF master.stage < 3 THEN @ ELSE Steps(master.md[3]),
       !.events = Append(@, MasterEvent("write", MdPhase(master.stage), 0))]
  /\ UNCHANGED <<kernel, call, agents>>

\* The loop takes the next step and lists the workspace.
MasterSnapshotRepo ==
  /\ master.pc = "loop"
  /\ master.idx < Len(master.steps)
  /\ master' = [master EXCEPT
       !.pc = "implement",
       !.idx = master.idx + 1,
       !.repo_snapshot = SnapshotRepo(Disk(files, dirs), RepoRoot),
       !.events = Append(@, MasterEvent("listing", <<>>, master.idx + 1))]
  /\ UNCHANGED <<store, kernel, call, agents>>

\* developer.implement_step returns.
MasterImplement(produced_text) ==
  LET asked == MasterAsk(agents, master, Response(FreshId(agents), produced_text))
  IN  /\ master.pc = "implement"
      /\ agents' = asked.agents
      /\ master' = [master EXCEPT
           !.pc = "apply",
           !.code = asked.ret.text,
           !.codes = Append(@, asked.ret.text),
           !.events = Append(@, MasterEvent("produce", developer, master.idx))]
      /\ UNCHANGED <<store, kernel, call>>

\* _apply_changes on the developer's output; its paths are kept under the
\* step label, or its exception leaves run().
MasterApply ==
  LET after == ApplyChanges(Disk(files, dirs), RepoRoot, master.code, master.dry_run)
  IN  /\ master.pc = "apply"
      /\ files' = after.files
      /\ dirs' = after.dirs
      /\ master' = [master EXCEPT
           !.pc = IF after.ret.kind = "raise" THEN "failed" ELSE "critique",
           !.all_changes = IF after.ret.kind = "raise" THEN @
                           ELSE Append(@, [step_label |-> StepLabel(master.idx),
                                           changed_paths |-> after.ret.paths]),
           !.events = Append(@, MasterEvent(IF after.ret.kind = "raise"
                                            THEN "raise" ELSE "apply",
                                            <<>>, master.idx))]
      /\ UNCHANGED <<now, snapshots, log, kernel, call, agents>>

\* critic.critique returns.
MasterCritique(produced_text) ==
  LET asked == MasterAsk(agents, master, Response(FreshId(agents), produced_text))
  IN  /\ master.pc = "critique"
      /\ agents' = asked.agents
      /\ master' = [master EXCEPT
           !.pc = "write_critique",
           !.critique_text = asked.ret.text,
           !.events = Append(@, MasterEvent("produce", critique, master.idx))]
      /\ UNCHANGED <<store, kernel, call>>

\* The critique is written and appended to all_critiques.
MasterWriteCritique ==
  /\ master.pc = "write_critique"
  /\ StoreWrite(critique, critic, MasterProject, master.critique_text)
  /\ master' = [master EXCEPT
       !.pc = "loop",
       !.all_critiques = Append(@, log'[Len(log')]),
       !.events = Append(@, MasterEvent("write", critique, master.idx))]
  /\ UNCHANGED <<kernel, call, agents>>

\* Faulty variant of MasterProduceFails: the call is made again.
MasterProduceFailsRetried ==
  /\ master.pc \in {"generate", "upload", "implement", "critique"}
  /\ agents' = MasterAsk(agents, master, Raises).agents
  /\ master' = [master EXCEPT
       !.events = Append(@, MasterEvent("raise", <<>>, master.idx))]
  /\ UNCHANGED <<store, kernel, call>>

\* An agent call raises: nothing catches the exception, it leaves run().
MasterProduceFails ==
  /\ master.pc \in {"generate", "upload", "implement", "critique"}
  /\ agents' = MasterAsk(agents, master, Raises).agents
  /\ master' = [master EXCEPT
       !.pc = "failed",
       !.events = Append(@, MasterEvent("raise", <<>>, master.idx))]
  /\ UNCHANGED <<store, kernel, call>>

\* Faulty variant of MasterReturn: run() returns after the first step.
MasterReturnEarly ==
  /\ master.pc = "loop"
  /\ master.idx = 1
  /\ master' = [master EXCEPT
       !.pc = "done",
       !.result = [kind |-> "dict",
                   north_star_state   |-> master.states[1],
                   architecture_state |-> master.states[2],
                   dev_plan_state     |-> master.states[3],
                   file_changes       |-> master.all_changes,
                   critiques          |-> master.all_critiques]]
  /\ UNCHANGED <<store, kernel, call, agents>>

\* After the last step run() returns its dict.
MasterReturn ==
  /\ master.pc = "loop"
  /\ master.idx = Len(master.steps)
  /\ master' = [master EXCEPT
       !.pc = "done",
       !.result = [kind |-> "dict",
                   north_star_state   |-> master.states[1],
                   architecture_state |-> master.states[2],
                   dev_plan_state     |-> master.states[3],
                   file_changes       |-> master.all_changes,
                   critiques          |-> master.all_critiques]]
  /\ UNCHANGED <<store, kernel, call, agents>>

MasterNext ==
  \/ Tick
  \/ MasterInit
  \/ \E dry_run \in BOOLEAN, existing \in Workspaces : MasterRun(dry_run, existing)
  \/ \E produced_text \in StageTexts(master.stage) : MasterGenerate(produced_text)
  \/ \E produced_text \in StateTexts : MasterUpload(produced_text)
  \/ MasterWriteState
  \/ MasterWriteMd
  \/ MasterSnapshotRepo
  \/ \E produced_text \in Outputs : MasterImplement(produced_text)
  \/ MasterApply
  \/ \E produced_text \in Texts : MasterCritique(produced_text)
  \/ MasterWriteCritique
  \/ MasterProduceFails
  \/ MasterReturn

\* One run of the multi-agent orchestrator on an empty store and workspace.
SpecMaster == Init /\ [][MasterNext]_vars

\* A process runs one of the two orchestrators, once.
SpecRuns == Init /\ [][KernelNext \/ MasterNext]_vars

\* The steps of a run that wait for nothing but the interpreter or an answer
\* of the service: an agent call returning, a store write, a listing, an
\* application of file changes, the return.
KernelSteps ==
  \/ \E produced_text \in Texts : KernelProduce(produced_text)
  \/ KernelWrite
  \/ KernelReturn

MasterSteps ==
  \/ \E produced_text \in StageTexts(master.stage) : MasterGenerate(produced_text)
  \/ \E produced_text \in StateTexts : MasterUpload(produced_text)
  \/ MasterWriteState
  \/ MasterWriteMd
  \/ MasterSnapshotRepo
  \/ \E produced_text \in Outputs : MasterImplement(produced_text)
  \/ MasterApply
  \/ \E produced_text \in Texts : MasterCritique(produced_text)
  \/ MasterWriteCritique
  \/ MasterReturn

\* A run of either orchestrator at one reading of the clock.
NextLive ==
  \/ KernelInit
  \/ \E project \in Projects : KernelRun(project)
  \/ KernelSteps
  \/ KernelProduceFails
  \/ MasterInit
  \/ \E dry_run \in BOOLEAN, existing \in Workspaces : MasterRun(dry_run, existing)
  \/ MasterSteps
  \/ MasterProduceFails

\* The steps that wait for an answer of the service or for the interpreter
\* alone.
KernelGoesOn ==
  \/ \E produced_text \in Texts : KernelProduce(produced_text)
  \/ KernelReturn

MasterGoesOn ==
  \/ \E produced_text \in StageTexts(master.stage) : MasterGenerate(produced_text)
  \/ \E produced_text \in StateTexts : MasterUpload(produced_text)
  \/ MasterSnapshotRepo
  \/ \E produced_text \in Outputs : MasterImplement(produced_text)
  \/ \E produced_text \in Texts : MasterCritique(produced_text)
  \/ MasterReturn

\* The steps that write to the store or to the workspace, and the positions
\* of a run at which one of them is the next statement: such a step is
\* enabled exactly there (a write or an application that fails is a step to
\* "failed" of the same action).
DiskSteps ==
  \/ KernelWrite
  \/ MasterWriteState
  \/ MasterWriteMd
  \/ MasterApply
  \/ MasterWriteCritique

AtDiskStep ==
  \/ pc = "write"
  \/ master.pc \in {"write_state", "write_md", "apply", "write_critique"}

\* The runs in which the interpreter goes on and every agent call that does
\* not raise returns in the end.  The last conjunct is WF_vars(DiskSteps)
\* with AtDiskStep written for ENABLED <<DiskSteps>>_vars.
SpecLive ==
  /\ Init
  /\ [][NextLive]_vars
  /\ WF_vars(KernelGoesOn)
  /\ WF_vars(MasterGoesOn)
  /\ ([]<>(~AtDiskStep) \/ []<><<DiskSteps>>_vars)

\* ------------------------------------------------------------ Agent calls

\* The number of requests the agents make of the service in all.
MaxRequests == 4

\* The agents constructed: one of each version.
AgentNames == {<<"a">>, <<"b">>}

ImplOf(name) == IF name = <<"a">> THEN Package ELSE Monolith

Messages == {<<"m">>, <<"n">>}

\* What the service may do with the next request.
Outcomes(ags) ==
  {Raises, Response(FreshId(ags), <<"t">>), EmptyResponse(FreshId(ags)),
   BrokenResponse(FreshId(ags))}

\* agent.chat(message) is called by the owner of the agent, who goes on
\* whether it returns or raises.
AgentChat(name, message, outcome) ==
  /\ name \in DOMAIN agents
  /\ Requests(agents, DOMAIN agents) < MaxRequests
  /\ agents' = [agents EXCEPT ![name] = Chat(@, message, outcome).agent]
  /\ UNCHANGED <<store, kernel, master, call>>

NextAgent ==
  \/ \E name \in AgentNames : \E outcome \in Outcomes(agents) :
       Construct(ImplOf(name), name, outcome)
  \/ \E name \in AgentNames : \E message \in Messages :
       \E outcome \in Outcomes(agents) : AgentChat(name, message, outcome)

\* Agents of both versions, called in any order with any outcome.
SpecAgent == Init /\ [][NextAgent]_vars

\* ------------------------------------------------------- store properties

Last == log[Len(log)]

\* The write of log entry e matches the filters of latest(phase, project).
Matches(e, phase, project) ==
  /\ phase.given => e.args.phase = phase.val
  /\ project.given => e.args.project = project.val

\* C1: in the in-memory store, get_snapshot of the id the most recent
\* write_snapshot returned yields a Snapshot with the phase, agent_name,
\* project and text that were written.
C1_MemWriteThenRead ==
  log # <<>> =>
    LET r == MemGetSnapshot(snapshots, Last.mem.id)
    IN  /\ r.kind = "snapshot"
        /\ r.snap.phase = Last.args.phase
        /\ r.snap.agent_name = Last.args.agent_name
        /\ r.snap.project = Last.args.project
        /\ r.snap.text = Last.args.text

\* C1 witness: a write into a store that already holds another snapshot has
\* been made and is read back.
C1_Witness ==
  /\ Len(log) = 2
  /\ Len(snapshots) = 2
  /\ MemGetSnapshot(snapshots, Last.mem.id) = Returned(Last.mem)
  /\ Last.mem.text = Last.args.text

\* C2 as stated: after any further calls, get_snapshot of an id a write
\* returned still returns the Snapshot that write returned, in both stores.
C2_NeverMutated ==
  \A i \in 1..Len(log) :
    /\ MemGetSnapshot(snapshots, log[i].mem.id) = Returned(log[i].mem)
    /\ FsGetSnapshot(files, log[i].fs.id) = {Returned(log[i].fs)}

\* The text holds no carriage return.
NoCarriageReturn(text) == \A k \in 1..Len(text) : text[k] # "\r"

\* No snapshot is ever deleted, so get_snapshot of an id a write returned
\* succeeds in both stores after any further calls; in the in-memory store
\* it returns that write's Snapshot, with the fields written, as long as no
\* later write returned the same id; in the file store it returns the text
\* written as long as no other write returned the same id and the text holds
\* no carriage return.
NeverDeleted ==
  \A i \in 1..Len(log) :
    LET m == MemGetSnapshot(snapshots, log[i].mem.id)
        f == FsGetSnapshot(files, log[i].fs.id)
    IN  /\ m.kind = "snapshot"
        /\ m.snap.id = log[i].mem.id
        /\ KeyError \notin f
        /\ (\A j \in (i + 1)..Len(log) : log[j].mem.id # log[i].mem.id)
             => /\ m = Returned(log[i].mem)
                /\ m.snap.phase = log[i].args.phase
                /\ m.snap.agent_name = log[i].args.agent_name
                /\ m.snap.project = log[i].args.project
                /\ m.snap.text = log[i].args.text
                /\ m.snap.created_at = log[i].created_at
        /\ ((\A j \in 1..Len(log) : j # i => log[j].fs.id # log[i].fs.id)
              /\ NoCarriageReturn(log[i].args.text))
             => \A r \in f : r.snap.text = log[i].args.text

\* The writes made under project P, in the order they were made.
WritesUnder(P) == SelectSeq(log, LAMBDA e : e.args.project = P)

Increasing(ws) ==
  \A i \in 1..(Len(ws) - 1) : StrLess(ws[i].created_at, ws[i + 1].created_at)

\* C3 as stated: when the writes under project P have strictly increasing
\* timestamps, latest(project=P) returns the last of them, in both stores,
\* whatever was written under other projects.
C3_LatestOfProject ==
  \A P \in Projects :
    LET ws == WritesUnder(P)
        tn == ws[Len(ws)]
        m  == MemLatest(snapshots, NoArg, Some(P))
    IN  (ws # <<>> /\ Increasing(ws)) =>
          /\ m.kind = "snapshot"
          /\ m.snap.created_at = tn.created_at
          /\ m.snap.text = tn.args.text
          /\ \A r \in FsLatest(files, dirs, NoArg, Some(P)) :
               /\ r.kind = "snapshot"
               /\ r.snap.created_at = tn.created_at
               /\ r.snap.text = tn.args.text

\* The greatest created_at among the writes of phase X.
IsGreatestOfPhase(t, X) ==
  /\ \E i \in 1..Len(log) : log[i].args.phase = X /\ log[i].created_at = t
  /\ \A i \in 1..Len(log) : log[i].args.phase = X => StrLeq(log[i].created_at, t)

\* C4 as stated: latest(phase=X) with no project returns a snapshot of phase
\* X with the greatest created_at over all projects, and None only if no
\* snapshot of phase X was written, in both stores.
C4_LatestOfPhase ==
  \A X \in Phases :
    (\E i \in 1..Len(log) : log[i].args.phase = X) =>
      /\ MemLatest(snapshots, Some(X), NoArg).kind = "snapshot"
      /\ IsGreatestOfPhase(MemLatest(snapshots, Some(X), NoArg).snap.created_at, X)
      /\ \A r \in FsLatest(files, dirs, Some(X), NoArg) :
           /\ r.kind = "snapshot"
           /\ r.snap.phase = X
           /\ IsGreatestOfPhase(r.snap.created_at, X)

\* C5 as stated: in the file store, get_snapshot of the id the most recent
\* write returned yields the phase and project that were written.
C5_FsRoundTrip ==
  log # <<>> =>
    \A r \in FsGetSnapshot(files, Last.fs.id) :
      /\ r.kind = "snapshot"
      /\ r.snap.phase = Last.args.phase
      /\ r.snap.project = Last.args.project

\* C6 as stated: get_snapshot of an id no write to the store returned raises
\* KeyError, in both stores, and a returned Snapshot has the requested id.
C6_UnknownIdNotFound ==
  \A id \in RequestIds :
    /\ id \notin MemIds => MemGetSnapshot(snapshots, id) = KeyError
    /\ id \notin FsIds => FsGetSnapshot(files, id) = {KeyError}
    /\ MemGetSnapshot(snapshots, id).kind = "snapshot"
         => MemGetSnapshot(snapshots, id).snap.id = id
    /\ \A r \in FsGetSnapshot(files, id) : r.kind = "snapshot" => r.snap.id = id

\* C7 as stated: latest with filters that match no written snapshot returns
\* None, in both stores.
C7_LatestAbsent ==
  \A phase \in PhaseArgs, project \in ProjectArgs :
    (\A i \in 1..Len(log) : ~Matches(log[i], phase, project)) =>
      /\ MemLatest(snapshots, phase, project) = None
      /\ FsLatest(files, dirs, phase, project) = {None}

\* C8 as stated: in the file store any two writes return different ids and
\* write files of different names, and each is read back with its own text.
C8_FsAlwaysNewFile ==
  \A i, j \in 1..Len(log) :
    i # j =>
      /\ log[i].fs.id # log[j].fs.id
      /\ PathName(log[i].path) # PathName(log[j].path)
      /\ \A r \in FsGetSnapshot(files, log[i].fs.id) :
           r.kind = "snapshot" /\ r.snap.text = log[i].args.text

\* In the file store two writes whose created_at differ return different ids
\* and write files of different names; a write whose created_at no other
\* write shares, of a text without carriage return, is read back with its
\* own text.
FsNewFilePerTimestamp ==
  \A i \in 1..Len(log) :
    /\ \A j \in 1..Len(log) :
         log[i].created_at # log[j].created_at =>
           /\ log[i].fs.id # log[j].fs.id
           /\ PathName(log[i].path) # PathName(log[j].path)
           /\ log[i].path # log[j].path
    /\ (/\ \A j \in 1..Len(log) : j # i => log[j].created_at # log[i].created_at
        /\ NoCarriageReturn(log[i].args.text))
         => \A r \in FsGetSnapshot(files, log[i].fs.id) :
              r.kind = "snapshot" /\ r.snap.text = log[i].args.text

\* The positions of the in-memory store that hold id.
Holding(snaps, id) == {k \in 1..Len(snaps) : snaps[k].id = id}

\* C9: in the in-memory store a write with the (phase, agent_name, project,
\* text) of an earlier write returns the id of that write and replaces the
\* snapshot under it: the number of stored snapshots does not grow, exactly
\* one snapshot is stored under the id, and it carries the created_at of the
\* second write.
C9_MemRewriteReplaces ==
  [][(/\ Len(log') = Len(log) + 1
      /\ \E i \in 1..Len(log) : log[i].args = log'[Len(log')].args)
     => LET new == log'[Len(log')]
        IN  /\ \A i \in 1..Len(log) :
                 log[i].args = new.args => log[i].mem.id = new.mem.id
            /\ Len(snapshots') = Len(snapshots)
            /\ Cardinality(Holding(snapshots', new.mem.id)) = 1
            /\ \A k \in Holding(snapshots', new.mem.id) :
                 /\ snapshots'[k].created_at = new.created_at
                 /\ snapshots'[k].text = new.args.text]_vars

\* C9 witness: the same arguments were written twice, at different clock
\* readings, and the store holds one snapshot, with the second created_at.
C9_Witness ==
  /\ Len(log) = 2
  /\ log[1].args = log[2].args
  /\ log[1].created_at # log[2].created_at
  /\ Len(snapshots) = 1
  /\ snapshots[1].created_at = log[2].created_at

\* C19 as stated: every write to the file store has put its text, and
\* nothing else, in the file root/<slug(project)>/<phase>/<file name>, three
\* levels below the root, and has made no other file.
C19_FileThreeLevelsBelowRoot ==
  /\ Cardinality(DOMAIN files) <= Len(log)
  /\ \A i \in 1..Len(log) :
       LET q == Resolve(log[i].path)
       IN  /\ q \in DOMAIN files
           /\ Len(q) = Len(Root) + 3
           /\ q = Root \o <<Slug(log[i].args.project), log[i].args.phase,
                             FsFileName(log[i].args.phase, log[i].args.agent_name,
                                        log[i].args.project, log[i].created_at)>>
           /\ (\A j \in (i + 1)..Len(log) : log[j].path # log[i].path)
                => files[q] = log[i].args.text

\* The write that last wrote the file at path p.
LastWriteTo(p) ==
  CHOOSE i \in 1..Len(log) :
    /\ Resolve(log[i].path) = p
    /\ \A j \in (i + 1)..Len(log) : Resolve(log[j].path) # p

NoUnderscore(name) == \A k \in 1..Len(name) : name[k] # "_"

\* C20 as stated: in the file store, with agent names free of "_",
\* get_snapshot of an id a write returned yields the id, agent_name and
\* created_at of the Snapshot that write returned and the text in its file,
\* and every Snapshot latest yields has the id, agent_name, created_at and
\* text of the write that made the file it was read from.
C20_FsMetadataFromName ==
  (\A i \in 1..Len(log) : NoUnderscore(log[i].args.agent_name)) =>
    /\ \A i \in 1..Len(log) :
         \A r \in FsGetSnapshot(files, log[i].fs.id) :
           /\ r.kind = "snapshot"
           /\ r.snap.id = log[i].fs.id
           /\ r.snap.agent_name = log[i].fs.agent_name
           /\ r.snap.created_at = log[i].fs.created_at
           /\ r.snap.text = log[LastWriteTo(Resolve(log[i].path))].args.text
    /\ \A phase \in PhaseArgs, project \in ProjectArgs :
         \A r \in FsLatest(files, dirs, phase, project) :
           r.kind = "snapshot" =>
             \E i \in 1..Len(log) :
               /\ r.snap.id = log[i].fs.id
               /\ r.snap.agent_name = log[i].fs.agent_name
               /\ r.snap.created_at = log[i].fs.created_at
               /\ r.snap.text = log[i].fs.text
               /\ i = LastWriteTo(Resolve(log[i].path))

\* ------------------------------------------------------ kernel properties

\* produce then write, for each phase in order.
SixPhases ==
  [n \in 1..(2 * Len(KernelPhases)) |->
     Event(IF n % 2 = 1 THEN "produce" ELSE "write", KernelPhases[(n + 1) \div 2])]

\* C10: a run whose every agent call succeeds has made, when it returns,
\* exactly six agent calls and six writes, a call then a write per phase, the
\* writes tagged upgrade, north_star, architecture, dev_plan, reflection,
\* checkpoint in that order, and returns a dict with exactly these six keys,
\* each mapped to the Snapshot written for that phase.
C10_SixSnapshotsInOrder ==
  pc = "done" =>
    /\ events = SixPhases
    /\ Len(log) = 6
    /\ Len(snapshots) = 6
    /\ Cardinality(DOMAIN files) = 6
    /\ \A k \in 1..6 :
         /\ log[k].args.phase = KernelPhases[k]
         /\ log[k].args.agent_name = KernelAgent
         /\ log[k].args.project = project_id
    /\ DOMAIN returned = {upgrade, north_star, architecture, dev_plan, reflection, checkpoint}
    /\ \A k \in 1..6 :
         /\ returned[KernelPhases[k]] = log[k]
         /\ returned[KernelPhases[k]].mem.phase = KernelPhases[k]
         /\ returned[KernelPhases[k]].fs.phase = KernelPhases[k]
         /\ MemGetSnapshot(snapshots, returned[KernelPhases[k]].mem.id)
              = Returned(returned[KernelPhases[k]].mem)

\* C10 witness: a run has returned after six writes, the agent having
\* produced different texts in it.
C10_Witness ==
  /\ pc = "done"
  /\ Len(log) = 6
  /\ Len(snapshots) = 6
  /\ Cardinality(DOMAIN files) = 6
  /\ \E j, k \in 1..6 : log[j].args.text # log[k].args.text

\* The phases from the k-th on.
PhasesFrom(k) == {KernelPhases[j] : j \in k..Len(KernelPhases)}

\* The agent call of some phase has raised.
Raised == \E n \in 1..Len(events) : events[n].ev = "raise"

\* C11: once the agent call of phase k has raised, run() has failed and
\* stays failed: the store holds the snapshots of the k - 1 phases before, in
\* order, and none tagged with phase k or a later phase; the failed call is
\* the last one made (no retry, no later call) and nothing is returned.
C11_FailFast ==
  /\ [](Raised =>
          /\ pc = "failed"
          /\ returned = <<>>
          /\ events = SubSeq(SixPhases, 1, 2 * phaseNo - 1)
                        \o <<Event("raise", KernelPhases[phaseNo])>>
          /\ Len(log) = phaseNo - 1
          /\ Len(snapshots) = phaseNo - 1
          /\ Cardinality(DOMAIN files) = phaseNo - 1
          /\ \A j \in 1..Len(log) :
               /\ log[j].args.phase = KernelPhases[j]
               /\ log[j].args.phase \notin PhasesFrom(phaseNo)
               /\ MemGetSnapshot(snapshots, log[j].mem.id) = Returned(log[j].mem)
               /\ log[j].path \in DOMAIN files
               /\ files[log[j].path] = log[j].args.text)
  /\ [][Raised => UNCHANGED <<snapshots, files, dirs, log, kernel, master, agents>>]_vars

\* C11 witness: the agent call of the fourth phase has raised after three
\* phases wrote their snapshots.
C11_Witness ==
  /\ pc = "failed"
  /\ Raised
  /\ phaseNo = 4
  /\ Len(log) = 3
  /\ Len(snapshots) = 3

\* ------------------------------------------------------- helper properties

\* C18: the slug of any project name holds only alphanumerics, "-" and "_"
\* (so no path separator and no null character), is at most 64 characters
\* long, and is its own slug.
C18_SlugSafeIdempotent ==
  call.fn = "_slug" =>
    /\ \A i \in 1..Len(call.ret) :
         /\ IsAlnum(call.ret[i]) \/ call.ret[i] \in {"-", "_"}
         /\ call.ret[i] \notin {"/", Nul}
    /\ Len(call.ret) <= SlugMaxLen
    /\ Slug(call.ret) = call.ret

\* C18 witness: a name longer than 64 characters with path separators in it
\* has been slugged.
C18_Witness ==
  /\ call.fn = "_slug"
  /\ Len(call.arg) > SlugMaxLen
  /\ \E i \in 1..SlugMaxLen : call.arg[i] = "/"
  /\ Len(call.ret) = SlugMaxLen
  /\ call.ret # call.arg

\* The (path, content) pairs of the well-formed blocks among segs, in order.
BlocksOf(segs) ==
  LET blocks == SelectSeq(segs, LAMBDA seg : seg.kind = "block")
  IN  [k \in 1..Len(blocks) |->
         [path_str |-> blocks[k].path, content |-> blocks[k].content]]

\* "=== file: a/b.txt ===\nhello\n=== end ===\n=== file: c.txt ===\nworld"
Example ==
  FileMarker \o <<" ", "a", "/", "b", ".", "t", "x", "t", " ">> \o Fence
    \o <<"\n", "h", "e", "l", "l", "o", "\n">> \o EndMarker \o <<"\n">>
    \o FileMarker \o <<" ", "c", ".", "t", "x", "t", " ">> \o Fence
    \o <<"\n", "w", "o", "r", "l", "d">>

\* C13: from an output made of k well-formed blocks, with or without text
\* before the first, _apply_changes takes exactly k (path, content) pairs in
\* the order of the blocks; each path is the trimmed text between the marker
\* and the next "===", each content ends at the first "=== end ===" or, if
\* there is none, at the next marker or the end of the output; the paths
\* returned are those paths under repo_root.  The example output gives
\* (a/b.txt, "hello\n") and (c.txt, "world").
C13_ParserYieldsBlocks ==
  call.fn = "_apply_changes" =>
    /\ (\A k \in 1..Len(call.segs) : call.segs[k].kind = "block") =>
         /\ Len(call.changes) = Len(call.segs)
         /\ \A k \in 1..Len(call.segs) :
              /\ call.changes[k].path_str = call.segs[k].path
              /\ call.changes[k].content = call.segs[k].content
         /\ call.ret.kind = "paths"
         /\ call.ret.paths = [k \in 1..Len(call.segs) |->
                                RepoRoot \o PathParts(call.segs[k].path)]
    /\ call.llm_output = Example =>
         call.changes =
           <<[path_str |-> <<"a", "/", "b", ".", "t", "x", "t">>,
              content |-> <<"h", "e", "l", "l", "o", "\n">>],
             [path_str |-> <<"c", ".", "t", "x", "t">>,
              content |-> <<"w", "o", "r", "l", "d">>]>>

\* C13 witness: _apply_changes has been called on the example output.
C13_Witness ==
  /\ call.fn = "_apply_changes"
  /\ call.llm_output = Example
  /\ Len(call.changes) = 2
  /\ call.ret.kind = "paths"

\* C14: a segment whose marker is followed by no further "===" raises
\* nothing and gives no path and no file; the well-formed blocks before and
\* after it are all taken, in order, and in apply mode their files, and no
\* others, are written with their contents.
C14_MalformedSkipped ==
  call.fn = "_apply_changes" =>
    /\ call.ret.kind = "paths"
    /\ call.changes = BlocksOf(call.segs)
    /\ Len(call.ret.paths) = Len(BlocksOf(call.segs))
    /\ ~call.dry_run =>
         /\ DOMAIN files = {RepoRoot \o PathParts(BlocksOf(call.segs)[k].path_str) :
                              k \in 1..Len(BlocksOf(call.segs))}
         /\ \A k \in 1..Len(BlocksOf(call.segs)) :
              (\A j \in (k + 1)..Len(BlocksOf(call.segs)) :
                 BlocksOf(call.segs)[j].path_str # BlocksOf(call.segs)[k].path_str)
                => files[RepoRoot \o PathParts(BlocksOf(call.segs)[k].path_str)]
                     = BlocksOf(call.segs)[k].content

\* C14 witness: an output with a malformed segment between two well-formed
\* blocks has been applied; the file the malformed segment names is not there.
C14_Witness ==
  /\ call.fn = "_apply_changes"
  /\ ~call.dry_run
  /\ Len(call.segs) = 3
  /\ call.segs[1].kind = "block"
  /\ call.segs[2].kind = "malformed"
  /\ call.segs[3].kind = "block"
  /\ Len(call.ret.paths) = 2
  /\ RepoRoot \o PathParts(call.segs[2].path) \notin DOMAIN files
  /\ Cardinality(DOMAIN files) = 1

\* A line with nothing but whitespace in it.
Blank(line) == \A k \in 1..Len(line.text) : line.text[k] \in Whitespace

\* C15: the step list has one entry for each non-blank line of the dev plan,
\* in the order of the lines, and none for an empty or whitespace-only line;
\* a plan without a non-blank line gives the empty list.
C15_StepsAreNonBlankLines ==
  call.fn = "steps" =>
    LET nonblank == SelectSeq(call.lines, LAMBDA line : ~Blank(line))
    IN  /\ Len(call.ret) = Len(nonblank)
        /\ \A k \in 1..Len(nonblank) : call.ret[k] = Strip(nonblank[k].text)
        /\ \A k \in 1..Len(call.ret) : call.ret[k] # <<>>
        /\ (\A k \in 1..Len(call.lines) : Blank(call.lines[k])) => call.ret = <<>>

\* C15 witness: a plan of two different steps with a whitespace-only line
\* between them has been segmented.
C15_Witness ==
  /\ call.fn = "steps"
  /\ Len(call.lines) = 3
  /\ ~Blank(call.lines[1])
  /\ Blank(call.lines[2]) /\ call.lines[2].text # <<>>
  /\ ~Blank(call.lines[3])
  /\ call.lines[1].text # call.lines[3].text
  /\ Len(call.ret) = 2
  /\ call.ret[1] # call.ret[2]

\* ------------------------------------------------------ master properties

\* The files below the workspace root, with their contents.
Workspace == [f \in {g \in DOMAIN files : SubSeq(g, 1, Len(RepoRoot)) = RepoRoot} |-> files[f]]

\* The paths _apply_changes takes from the developer output of step i.
PathsOfStep(i) ==
  LET changes == ParseChanges(master.codes[i])
  IN  [k \in 1..Len(changes) |-> RepoRoot \o PathParts(changes[k].path_str)]

\* C12: during a dry run no step creates, changes or removes a file of the
\* workspace, whatever the agents return, and the run returns in
\* file_changes, for every step, all the paths of that step's developer
\* output.
C12_DryRunWritesNothing ==
  /\ [][master.dry_run /\ master.pc # "idle" => Workspace' = Workspace]_vars
  /\ [](master.dry_run /\ master.pc = "done" =>
          /\ Len(master.result.file_changes) = Len(master.steps)
          /\ \A i \in 1..Len(master.steps) :
               /\ master.result.file_changes[i].step_label = StepLabel(i)
               /\ master.result.file_changes[i].changed_paths = PathsOfStep(i))

\* C12 witness: a dry run of two steps has returned; a developer output had
\* two blocks, one of them for the file "d" the workspace held before, and
\* the workspace still holds "d" alone, unchanged.
C12_Witness ==
  /\ master.dry_run
  /\ master.pc = "done"
  /\ Len(master.steps) = 2
  /\ Len(master.result.file_changes[1].changed_paths) = 2
  /\ \E k \in 1..2 : master.result.file_changes[1].changed_paths[k] = RepoRoot \o <<<<"d">>>>
  /\ Workspace = (RepoRoot \o <<<<"d">>>>) :> <<"o", "l", "d">>

\* C16: a run that succeeds on a dev plan of N non-blank lines returns the
\* three state snapshots written before the loop, file_changes with exactly
\* the keys step_1 .. step_N in order, each with the paths taken from that
\* step's developer output, and critiques with exactly N snapshots, the i-th
\* being the one written for the critique of step i; both are empty for N = 0.
C16_ResultAggregates ==
  master.pc = "done" =>
    LET N == Len(Steps(master.md[3]))
        r == master.result
    IN  /\ r.kind = "dict"
        /\ r.north_star_state = log[1]
        /\ r.north_star_state.args.phase = north_star \o <<"_", "s", "t", "a", "t", "e">>
        /\ r.architecture_state = log[3]
        /\ r.architecture_state.args.phase = architecture \o <<"_", "s", "t", "a", "t", "e">>
        /\ r.dev_plan_state = log[5]
        /\ r.dev_plan_state.args.phase = dev_plan \o <<"_", "s", "t", "a", "t", "e">>
        /\ Len(r.file_changes) = N
        /\ \A i \in 1..N :
             /\ r.file_changes[i].step_label = <<"s", "t", "e", "p", "_", Digits[i + 1]>>
             /\ r.file_changes[i].changed_paths = PathsOfStep(i)
        /\ Len(r.critiques) = N
        /\ Len(log) = 6 + N
        /\ \A i \in 1..N :
             /\ r.critiques[i] = log[6 + i]
             /\ r.critiques[i].args.phase = critique
             /\ \E n \in 1..Len(master.events) :
                  /\ master.events[n] = MasterEvent("write", critique, i)
                  /\ Cardinality({m \in 1..n : master.events[m].ev = "write"}) = 6 + i

\* C16 witness: a run over a plan of two steps has returned, with paths for
\* the first step and two critiques of different texts.
C16_Witness ==
  /\ master.pc = "done"
  /\ Len(master.steps) = 2
  /\ Len(master.result.file_changes) = 2
  /\ master.result.file_changes[1].changed_paths # <<>>
  /\ Len(master.result.critiques) = 2
  /\ master.result.critiques[1].args.text # master.result.critiques[2].args.text

\* The number of store writes among the first n events of the multi-agent
\* run.
WritesBefore(n) == Cardinality({m \in 1..(n - 1) : master.events[m].ev = "write"})

\* The number of store writes a multi-agent run has completed when the agent
\* call of the event e is issued: two for every stage before, and after the
\* three stages one for every step before.
WritesDue(e) ==
  IF e.idx > 0 THEN 6 + (e.idx - 1)
  ELSE 2 * ((CHOOSE j \in 1..3 : e.phase \in {StatePhase(j), MdPhase(j)}) - 1)

\* An agent call is in flight: the orchestrator waits for it to return.
KernelInFlight == pc = "produce"

MasterInFlight == master.pc \in {"generate", "upload", "implement", "critique"}

\* C17: both orchestrators run strictly in sequence.  In the single pipeline
\* every agent call but the first directly follows the write of the phase
\* before; in the multi-agent run every agent call is issued after all the
\* writes of the stages and steps before it; every write made is in the store
\* when the next call is issued; and never are two agent calls in flight.
C17_StrictlySequential ==
  /\ \A n \in 1..Len(events) :
       events[n].ev = "produce" =>
         \/ n = 1 /\ events[n].phase = KernelPhases[1]
         \/ /\ n > 1
            /\ events[n - 1].ev = "write"
            /\ \E k \in 2..Len(KernelPhases) :
                 /\ events[n].phase = KernelPhases[k]
                 /\ events[n - 1].phase = KernelPhases[k - 1]
                 /\ Len(log) >= k - 1
                 /\ log[k - 1].args.phase = KernelPhases[k - 1]
  /\ \A n \in 1..Len(master.events) :
       master.events[n].ev = "produce" =>
         /\ WritesBefore(n) = WritesDue(master.events[n])
         /\ Len(log) >= WritesDue(master.events[n])
  /\ (KernelInFlight \/ MasterInFlight) =>
       /\ ~(KernelInFlight /\ MasterInFlight)
       /\ Len(log) = Cardinality({m \in 1..Len(events) : events[m].ev = "write"})
                       + WritesBefore(Len(master.events) + 1)

\* C17 witness: a multi-agent run is waiting for the critic of its second
\* step, the critique of the first step being in the store.
C17_Witness ==
  /\ master.pc = "critique"
  /\ master.idx = 2
  /\ Len(log) = 7
  /\ log[7].args.phase = critique
  /\ WritesBefore(Len(master.events) + 1) = 7

\* ------------------------------------------------------- prompt properties

\* The text occurs in the prompt, character by character.
Embeds(prompt, text) ==
  /\ text # <<>>
  /\ \E i \in 1..(Len(prompt) - Len(text) + 1) :
       SubSeq(prompt, i, i + Len(text) - 1) = text

\* The message of the agent call of the k-th phase of the run, as the service
\* received it (the first request of the agent is its initialization).
KernelMessage(k) == agents[KernelAgent].sent[k + 1].payload.input

\* The agent call of the k-th phase has been made.
KernelAsked(k) == pc # "idle" /\ Len(agents[KernelAgent].sent) >= k + 1

\* The text of the snapshot the k-th phase of the run wrote.
KernelText(k) == log[k].mem.text

\* C21: in a run of the single pipeline the architecture prompt is the
\* architecture template around the text of the north_star snapshot of the
\* run, the dev_plan prompt the dev_plan template around the text of the
\* architecture snapshot, and the reflection prompt the reflection template
\* around the texts of the north_star, architecture and dev_plan snapshots;
\* the upgrade and checkpoint prompts are the fixed templates around the
\* configured project id and topic, and hold the text of no earlier snapshot.
C21_PromptsChained ==
  /\ KernelAsked(1) =>
       KernelMessage(1) = UpgradePrompt(project_id, ProjectTopic)
  /\ KernelAsked(3) =>
       /\ log[2].mem.phase = north_star
       /\ KernelMessage(3) = ArchitectureMsg(KernelText(2))
       /\ Embeds(KernelMessage(3), KernelText(2))
  /\ KernelAsked(4) =>
       /\ log[3].mem.phase = architecture
       /\ KernelMessage(4) = DevPlanMsg(KernelText(3))
       /\ Embeds(KernelMessage(4), KernelText(3))
  /\ KernelAsked(5) =>
       /\ log[4].mem.phase = dev_plan
       /\ KernelMessage(5) = ReflectionMsg(KernelText(2), KernelText(3), KernelText(4))
       /\ \A j \in 2..4 : Embeds(KernelMessage(5), KernelText(j))
  /\ KernelAsked(6) =>
       /\ KernelMessage(6) = CheckpointPrompt(project_id, ProjectTopic)
       /\ \A j \in 1..5 : ~Embeds(KernelMessage(6), KernelText(j))
       /\ Embeds(KernelMessage(6), project_id)
       /\ Embeds(KernelMessage(6), ProjectTopic)

\* C21 witness: a run has returned in which the upgrade, north_star,
\* architecture and dev_plan texts alternate, so that each prompt can be told
\* from the one built on the snapshot before.
C21_Witness ==
  /\ pc = "done"
  /\ Len(agents[KernelAgent].sent) = 7
  /\ KernelText(1) # KernelText(2)
  /\ KernelText(2) # KernelText(3)
  /\ KernelText(3) # KernelText(4)
  /\ Embeds(KernelMessage(5), KernelText(4))

\* -------------------------------------------------------- agent properties

\* The n-th request of the agent was a successful call: chat() returned.
Succeeded(agent, n) ==
  /\ agent.sent[n].outcome.kind = "response"
  /\ ExtractText(agent.impl, agent.sent[n].outcome).kind = "text"

\* The successful calls among the first n requests of the agent.
Successes(agent, n) == {m \in 1..n : Succeeded(agent, m)}

\* The m-th request of the agent is its k-th successful call.
IsSuccessNo(agent, m, k) ==
  Succeeded(agent, m) /\ Cardinality(Successes(agent, m)) = k

\* The token the n-th request has to carry: the id returned by the last
\* successful call before it, none if there is none.
TokenDue(agent, n) ==
  IF Successes(agent, n - 1) = {} THEN NoArg
  ELSE LET last == CHOOSE m \in Successes(agent, n - 1) :
                     \A o \in Successes(agent, n - 1) : o <= m
       IN  Some(agent.sent[last].outcome.id)

IsPrefix(s, t) == Len(s) <= Len(t) /\ SubSeq(t, 1, Len(s)) = s

\* C22: for each agent the log holds, for its k successful calls in order
\* (the initialization included), the prompt as user then the completion as
\* assistant, 2k entries in all; every request carries the token returned by
\* the successful call just before it, none on the first; and no step removes,
\* changes or reorders an entry of the log.
C22_LogAppendOnlyTokenChained ==
  /\ [](\A name \in DOMAIN agents :
          LET agent == agents[name]
              k == Cardinality(Successes(agent, Len(agent.sent)))
          IN  /\ Len(agent.chatlog) = 2 * k
              /\ \A m \in 1..Len(agent.sent) : \A j \in 1..k :
                   IsSuccessNo(agent, m, j) =>
                     /\ agent.chatlog[2 * j - 1].role = "user"
                     /\ agent.chatlog[2 * j - 1].content = agent.sent[m].payload.input
                     /\ agent.chatlog[2 * j].role = "assistant"
                     /\ agent.chatlog[2 * j].content
                          = ExtractText(agent.impl, agent.sent[m].outcome).text
              /\ \A n \in 1..Len(agent.sent) :
                   agent.sent[n].payload.previous_response_id = TokenDue(agent, n))
  /\ [][\A name \in DOMAIN agents :
          IsPrefix(agents[name].chatlog, agents'[name].chatlog)]_vars

\* The same of the agents of the package alone.
PackageAgentsChained ==
  \A name \in DOMAIN agents : agents[name].impl = Package =>
    /\ 2 * Cardinality(Successes(agents[name], Len(agents[name].sent)))
         = Len(agents[name].chatlog)
    /\ \A n \in 1..Len(agents[name].sent) :
         agents[name].sent[n].payload.previous_response_id = TokenDue(agents[name], n)

\* ------------------------------------------------- multi-agent run failures

\* The last request of the agent was not answered: the call raised.
LastRaised(agent) ==
  agent.sent # <<>> /\ agent.sent[Len(agent.sent)].outcome.kind = "raise"

\* An agent call of the multi-agent run has failed.
MasterProduceRaised ==
  master.pc # "idle" /\ \E name \in DOMAIN agents : LastRaised(agents[name])

\* Every snapshot the run wrote is in both stores: in memory under its id
\* with the phase, agent, project and text written (a later write of the same
\* four renews created_at), on disk in its file.
WritesInPlace ==
  \A j \in 1..Len(log) :
    /\ LET got == MemGetSnapshot(snapshots, log[j].mem.id)
       IN  /\ got.kind = "snapshot"
           /\ [got.snap EXCEPT !.created_at = log[j].mem.created_at] = log[j].mem
    /\ log[j].path \in DOMAIN files
    /\ files[log[j].path] = log[j].args.text

\* C23: when an agent call of a multi-agent run fails, whether of a stage
\* before the loop, of the developer or of the critic, run() has failed with
\* nothing returned; the failing step leaves the snapshots and the files as
\* they were (nothing is rolled back), and from then on no agent is called
\* again and no snapshot and no workspace file is written.
C23_MasterFailFast ==
  /\ [](MasterProduceRaised =>
          /\ master.pc = "failed"
          /\ master.result.kind = "none"
          /\ master.events[Len(master.events)].ev = "raise"
          /\ Cardinality({name \in DOMAIN agents : LastRaised(agents[name])}) = 1
          /\ WritesInPlace)
  /\ [][MasterProduceRaised =>
          UNCHANGED <<agents, snapshots, files, dirs, log, master>>]_vars
  /\ [][~MasterProduceRaised /\ MasterProduceRaised' =>
          UNCHANGED <<snapshots, files, dirs, log>>]_vars

\* C23 witness: in apply mode the critic call of the second step has failed,
\* after seven snapshots and the file of the first step were written.
C23_Witness ==
  /\ MasterProduceRaised
  /\ LastRaised(agents[critic])
  /\ ~master.dry_run
  /\ master.idx = 2
  /\ Len(log) = 7
  /\ \E i \in 1..Len(PathsOfStep(1)) : PathsOfStep(1)[i] \in DOMAIN files

\* ---------------------------------------------------- multi-agent run steps

\* The events of the three stages before the loop: per stage the document is
\* produced, the state upload produced and written, and the document written.
StageEvents ==
  [n \in 1..12 |->
     LET stage == (n + 3) \div 4
     IN  CASE n % 4 = 1 -> MasterEvent("produce", MdPhase(stage), 0)
           [] n % 4 = 2 -> MasterEvent("produce", StatePhase(stage), 0)
           [] n % 4 = 3 -> MasterEvent("write", StatePhase(stage), 0)
           [] n % 4 = 0 -> MasterEvent("write", MdPhase(stage), 0)]

\* The events of step i, in order.
StepEvents(i) ==
  <<MasterEvent("listing", <<>>, i), MasterEvent("produce", developer, i),
    MasterEvent("apply", <<>>, i), MasterEvent("produce", critique, i),
    MasterEvent("write", critique, i)>>

\* The events of the steps 1..n, in order.
RECURSIVE LoopEvents(_)
LoopEvents(n) == IF n = 0 THEN <<>> ELSE LoopEvents(n - 1) \o StepEvents(n)

\* The events of the run without the exception that ended it, if one did.
Completed ==
  IF master.events # <<>> /\ master.events[Len(master.events)].ev = "raise"
  THEN SubSeq(master.events, 1, Len(master.events) - 1)
  ELSE master.events

\* The texts of the north_star_md, architecture_md and dev_plan_md snapshots.
NorthStarText == log[2].args.text

ArchitectureText == log[4].args.text

DevPlanText == log[6].args.text

\* The message of the i-th call of the agent during the run (its first
\* request is its initialization).
MessageTo(name, i) == agents[name].sent[i + 1].payload.input

CallsTo(name) == Len(agents[name].sent) - 1

\* The implementation prompt up to the listing, for a step.
StepPart(step) ==
  LET whole == ImplementStepPrompt(step, <<>>)
  IN  SubSeq(whole, 1, 4 + Len(step) + 3)

\* C24: the events of the loop are those of step 1, then of step 2, and so
\* on, each step being: listing, developer call, application of the changes,
\* critic call, critique written; the developer call of step i is given the
\* i-th non-blank line of the dev plan, and the critic call of step i is given
\* that line, the output the developer returned at step i, and the north star
\* and architecture texts.
C24_StepsInOrder ==
  master.pc # "idle" /\ Len(log) >= 6 =>
    /\ master.steps = Steps(DevPlanText)
    /\ IsPrefix(Completed, StageEvents \o LoopEvents(Len(master.steps)))
    /\ \A i \in 1..CallsTo(developer) :
         /\ i <= Len(master.steps)
         /\ IsPrefix(StepPart(master.steps[i]), MessageTo(developer, i))
    /\ \A i \in 1..CallsTo(critic) :
         /\ agents[developer].chatlog[2 * i + 2].content = master.codes[i]
         /\ MessageTo(critic, i)
              = CritiquePrompt(master.steps[i], master.codes[i],
                               NorthStarText, ArchitectureText)

\* C24 witness: a run of two steps has returned, the developer having
\* returned different outputs for the two different steps.
C24_Witness ==
  /\ master.pc = "done"
  /\ Len(master.steps) = 2
  /\ master.steps[1] # master.steps[2]
  /\ master.codes[1] # master.codes[2]
  /\ master.events = StageEvents \o LoopEvents(2)
  /\ CallsTo(critic) = 2

\* --------------------------------------------------- file change properties

\* The path the k-th block of the call is written to.
FullPath(k) == Resolve(PathJoin(RepoRoot, call.segs[k].path))

\* The last block of the call written to the path p.
LastBlockTo(p) ==
  CHOOSE k \in 1..Len(call.segs) :
    /\ FullPath(k) = p
    /\ \A j \in 1..Len(call.segs) : FullPath(j) = p => j <= k

\* C25: the content parsed for a block is the text between the line of the
\* path and the end delimiter with the one newline that ends the line of the
\* path removed and every other character kept, and in apply mode the file of
\* the block holds exactly this content.
C25_ContentVerbatim ==
  call.fn = "_apply_changes" =>
    /\ Len(call.changes) = Len(call.segs)
    /\ \A k \in 1..Len(call.segs) : call.changes[k].content = call.segs[k].content
    /\ ~call.dry_run /\ call.ret.kind = "paths" =>
         \A p \in DOMAIN files : files[p] = call.segs[LastBlockTo(p)].content

\* The path lies inside the workspace root.
InWorkspace(p) == Len(p) > Len(RepoRoot) /\ SubSeq(p, 1, Len(RepoRoot)) = RepoRoot

\* C30: every file _apply_changes has written lies inside the workspace
\* root, whatever the path strings of the blocks.
C30_WritesInsideRoot ==
  call.fn = "_apply_changes" => \A p \in DOMAIN files : InWorkspace(p)

\* ------------------------------------------------------- listing properties

\* The listing in the message of the i-th developer call: what stands in the
\* implementation prompt between the step part and the closing part.
ListingOf(i) ==
  LET message == MessageTo(developer, i)
      before  == Len(StepPart(master.steps[i]))
      closing == Len(ImplementStepPrompt(<<>>, <<>>)) - Len(StepPart(<<>>))
  IN  SubSeq(message, before + 1, Len(message) - closing)

\* The files the steps before the i-th wrote, as the operating system places
\* them.
WrittenBefore(i) ==
  {Resolve(PathsOfStep(j)[k]) : <<j, k>> \in
     {jk \in (1..(i - 1)) \X (1..3) : jk[2] <= Len(PathsOfStep(jk[1]))}}

\* The listing names the file: one of its lines is the path of the file
\* relative to the workspace root.
Lists(listing, p) ==
  \E n \in 1..Len(SplitLines(listing)) :
    Resolve(RepoRoot \o PathParts(SplitLines(listing)[n])) = p

\* C26: in apply mode the listing given to the developer at a step names
\* every file written while the steps before it were applied, and in a dry run
\* the listing is the same at every step.
C26_ListingTracksWrites ==
  master.pc # "idle" /\ Len(log) >= 6 =>
    \A i \in 1..CallsTo(developer) :
      /\ MessageTo(developer, i) = ImplementStepPrompt(master.steps[i], ListingOf(i))
      /\ ~master.dry_run => \A p \in WrittenBefore(i) : Lists(ListingOf(i), p)
      /\ master.dry_run => ListingOf(i) = ListingOf(1)

\* The same, of the files written inside the workspace root only.
ListingTracksWritesInside ==
  master.pc # "idle" /\ Len(log) >= 6 =>
    \A i \in 1..CallsTo(developer) :
      /\ MessageTo(developer, i) = ImplementStepPrompt(master.steps[i], ListingOf(i))
      /\ ~master.dry_run =>
           \A p \in WrittenBefore(i) : InWorkspace(p) => Lists(ListingOf(i), p)
      /\ master.dry_run => ListingOf(i) = ListingOf(1)

\* --------------------------------------------------- termination properties

\* The agent calls of a run, not counting the initializations.
MasterCalls ==
  CallsTo(architect) + CallsTo(planner) + CallsTo(developer) + CallsTo(critic)

\* The agent call of the kernel has raised.
KernelProduceRaised == pc # "idle" /\ LastRaised(agents[KernelAgent])

\* No two agent calls of the run are for the same phase and step.
NoRepeat(evs) ==
  \A m, n \in 1..Len(evs) :
    evs[m].ev = "produce" /\ evs[n].ev = "produce" /\ evs[m] = evs[n] => m = n

\* What a run that has returned has done: six agent calls for the single
\* pipeline, 6 + 2N for a multi-agent run over a plan of N non-blank lines,
\* none for the same phase or step twice.
CallsWhenDone ==
  /\ pc = "done" =>
       /\ CallsTo(KernelAgent) = 6
       /\ Cardinality({n \in 1..Len(events) : events[n].ev = "produce"}) = 6
       /\ NoRepeat(events)
  /\ master.pc = "done" =>
       /\ MasterCalls = 6 + 2 * Len(Steps(DevPlanText))
       /\ Cardinality({n \in 1..Len(master.events) : master.events[n].ev = "produce"})
            = 6 + 2 * Len(Steps(DevPlanText))
       /\ NoRepeat(master.events)

ApplyRaised == master.pc = "failed" /\ ~MasterProduceRaised

StateSuffix == <<"_", "s", "t", "a", "t", "e">>

MdSuffix == <<"_", "m", "d">>

\* The phase and the agent name of the n-th write of a multi-agent run, as
\* the claim lists them.
WritePhase(n) ==
  IF n = 1 THEN north_star \o StateSuffix
  ELSE IF n = 2 THEN north_star \o MdSuffix
  ELSE IF n = 3 THEN architecture \o StateSuffix
  ELSE IF n = 4 THEN architecture \o MdSuffix
  ELSE IF n = 5 THEN dev_plan \o StateSuffix
  ELSE IF n = 6 THEN dev_plan \o MdSuffix
  ELSE critique

WriteAgent(n) == IF n <= 4 THEN architect ELSE IF n <= 6 THEN planner ELSE critic

\* The outputs the developer has returned so far.
DeveloperOutputs == {master.codes[k] : k \in 1..Len(master.codes)}

\* C28: the writes of a multi-agent run are, in order, north_star_state,
\* north_star_md, architecture_state, architecture_md, dev_plan_state,
\* dev_plan_md and one critique per step, 6 + N of them when the run over N
\* steps has returned; the first four carry the architect's name, the next
\* two the planner's, the critiques the critic's, all the project id of the
\* orchestrator, and none is written by the developer or holds an output of
\* the developer.
C28_WritesOfRun ==
  master.pc # "idle" =>
    /\ \A n \in 1..Len(log) :
         /\ log[n].args.phase = WritePhase(n)
         /\ log[n].args.agent_name = WriteAgent(n)
         /\ log[n].args.project = MasterProject
         /\ log[n].args.agent_name # developer
         /\ log[n].args.text \notin DeveloperOutputs
         /\ n > 6 => n - 6 <= Len(master.codes)
    /\ master.pc = "done" =>
         /\ Len(log) = 6 + Len(Steps(DevPlanText))
         /\ Len(master.codes) = Len(Steps(DevPlanText))

\* C28 witness: a run over two steps has returned with eight writes made
\* and two outputs of the developer received.
C28_Witness ==
  /\ master.pc = "done"
  /\ Len(Steps(DevPlanText)) = 2
  /\ Len(log) = 8
  /\ Len(master.codes) = 2
  /\ log[5].args.agent_name = planner

\* ------------------------------------------------ ephemeral id properties

\* The (phase, agent_name, project, text) of the n-th write.
WriteTuple(n) ==
  <<log[n].args.phase, log[n].args.agent_name, log[n].args.project, log[n].args.text>>

\* The ephemeral store before the n-th write: the store after the writes
\* before it.
RECURSIVE SnapshotsBefore(_)
SnapshotsBefore(n) ==
  IF n = 1 THEN <<>>
  ELSE DictPut(SnapshotsBefore(n - 1), log[n - 1].mem)

\* C29: two writes of the ephemeral store return the same id only if their
\* (phase, agent_name, project, text) are the same, and no write replaces a
\* stored snapshot whose phase, agent_name, project or text differs from the
\* ones written.
C29_SameIdSameTuple ==
  /\ \A m, n \in 1..Len(log) :
       log[m].mem.id = log[n].mem.id => WriteTuple(m) = WriteTuple(n)
  /\ \A n \in 1..Len(log) :
       \A k \in 1..Len(SnapshotsBefore(n)) :
         LET old == SnapshotsBefore(n)[k]
         IN  old.id = log[n].mem.id =>
               <<old.phase, old.agent_name, old.project, old.text>> = WriteTuple(n)

\* Of writes whose phase and agent_name hold no ":" the statement holds
\* (the project and the text of the model's writes hold none).
NoColon(s) == \A k \in 1..Len(s) : s[k] # ":"

SameIdSameTupleNoColon ==
  \A m, n \in 1..Len(log) :
    /\ \A k \in 1..2 : NoColon(WriteTuple(m)[k]) /\ NoColon(WriteTuple(n)[k])
    /\ log[m].mem.id = log[n].mem.id
    => WriteTuple(m) = WriteTuple(n)

\* ------------------------------------------------- latest after a run

\* What latest(phase=p, project=project_id) returns agrees in id, text and
\* agent_name with the snapshot s of one store.
AgreesWith(ret, s) ==
  /\ ret.kind = "snapshot"
  /\ ret.snap.id = s.id
  /\ ret.snap.text = s.text
  /\ ret.snap.agent_name = s.agent_name

\* latest(phase=p, project=project_id) of both stores against the entry of
\* phase p in the dict run() returned.
LatestMatches(p) ==
  /\ AgreesWith(MemLatest(snapshots, Some(p), Some(project_id)), returned[p].mem)
  /\ \A ret \in FsLatest(files, dirs, Some(p), Some(project_id)) :
       AgreesWith(ret, returned[p].fs)

\* C31: after a run that has returned, on a store that was empty before it,
\* latest(phase=p, project=project_id) returns for each of the six phases a
\* snapshot with the id, the text and the agent_name of the snapshot the
\* result of the run holds for p, in both stores.
C31_LatestMatchesResult ==
  pc = "done" => \A k \in 1..Len(KernelPhases) : LatestMatches(KernelPhases[k])

\* For an agent whose name holds no "_" the statement holds.
LatestMatchesResultPlainName ==
  pc = "done" /\ (\A k \in 1..Len(KernelAgent) : KernelAgent[k] # "_")
    => \A k \in 1..Len(KernelPhases) : LatestMatches(KernelPhases[k])

\* -------------------------------------------------- token and log together

\* The token of the agent is the response id of the last exchange its log
\* records: the id returned by its last successful call, which in the package
\* is also the meta of the last log entry.
TokenOfLastExchange(agent) ==
  /\ agent.previous_response_id = TokenDue(agent, Len(agent.sent) + 1)
  /\ agent.chatlog = <<>> => agent.previous_response_id = NoArg
  /\ agent.impl = Package /\ agent.chatlog # <<>> =>
       agent.previous_response_id
         = Some(agent.chatlog[Len(agent.chatlog)].meta.response_id)

\* C32: between calls the token of every agent is the response id of the
\* last exchange recorded in its log, and a call changes both the token and
\* the log or neither of them.
C32_TokenMatchesLog ==
  /\ [](\A name \in DOMAIN agents : TokenOfLastExchange(agents[name]))
  /\ [][\A name \in DOMAIN agents :
          (agents'[name].previous_response_id # agents[name].previous_response_id)
            <=> (agents'[name].chatlog # agents[name].chatlog)]_vars

\* The same of the agents of the package alone, in every state.
PackageTokenMatchesLog ==
  \A name \in DOMAIN agents :
    agents[name].impl = Package => TokenOfLastExchange(agents[name])

\* -------------------------------------------------- the two stores compared

\* The name holds no "_" and no path separator.
PlainName(s) == \A k \in 1..Len(s) : s[k] # "_" /\ s[k] # "/"

\* The project name is its own slug.
OwnSlug(project) == Slug(project) = project

\* The writes made so far have pairwise distinct timestamps, project names
\* equal to their slug, and phase and agent names without "_" and "/".
ComparableWrites ==
  /\ \A i, j \in 1..Len(log) : i # j => log[i].created_at # log[j].created_at
  /\ \A i \in 1..Len(log) :
       /\ OwnSlug(log[i].args.project)
       /\ PlainName(log[i].args.phase)
       /\ PlainName(log[i].args.agent_name)

\* Two results of latest are both None, or snapshots of the same phase,
\* agent_name, project and text.
SameAnswer(a, b) ==
  \/ a = None /\ b = None
  \/ /\ a.kind = "snapshot"
     /\ b.kind = "snapshot"
     /\ a.snap.phase = b.snap.phase
     /\ a.snap.agent_name = b.snap.agent_name
     /\ a.snap.project = b.snap.project
     /\ a.snap.text = b.snap.text

\* C33: after writes with pairwise distinct timestamps, project names equal
\* to their own slug and phase and agent names free of "_" and path
\* separators, latest(phase=X, project=P) of the in-memory store and of the
\* file store return snapshots of the same phase, agent_name, project and
\* text, or both return None, for every such X and P.
C33_StoresInterchangeable ==
  ComparableWrites =>
    \A X \in Phases, P \in Projects :
      PlainName(X) /\ OwnSlug(P) =>
        \A ret \in FsLatest(files, dirs, Some(X), Some(P)) :
          SameAnswer(MemLatest(snapshots, Some(X), Some(P)), ret)

\* The same after a single write of a text without carriage return.
StoresAgreeAfterOneWrite ==
  ComparableWrites /\ Len(log) = 1 /\ NoCarriageReturn(log[1].args.text) =>
    \A X \in Phases, P \in Projects :
      PlainName(X) /\ OwnSlug(P) =>
        \A ret \in FsLatest(files, dirs, Some(X), Some(P)) :
          SameAnswer(MemLatest(snapshots, Some(X), Some(P)), ret)

\* ------------------------------------------------- dry run against apply

\* The workspace a helper call of _apply_changes starts from.
DiskBefore == Disk(<<>>, {Root})

\* What the call made would have returned in the other mode, for the same
\* output and workspace root.
OtherMode ==
  ApplyChanges(DiskBefore, RepoRoot, call.llm_output, ~call.dry_run).ret

\* The files the paths of a returned list lead to.
FilesOf(paths) == {Resolve(paths[k]) : k \in 1..Len(paths)}

\* C34 as stated: for the same output and workspace root the call returns
\* the same list of paths, in the same order, in dry-run mode and in apply
\* mode, and these are the paths apply mode writes.
C34_DryRunPreviewsApply ==
  call.fn = "_apply_changes" =>
    /\ call.ret.kind = "paths"
    /\ call.ret = OtherMode
    /\ ~call.dry_run => DOMAIN files = FilesOf(call.ret.paths)

\* C34 amended: a dry run returns the list of every path of the output, and
\* whenever the call in apply mode returns (no mkdir and no write_text
\* raises) it returns the same list in the same order and has written
\* exactly the files of that list.
C34_DryRunPreviewsUnlessRaise ==
  call.fn = "_apply_changes" =>
    /\ call.dry_run => call.ret.kind = "paths" /\ DOMAIN files = {}
    /\ call.ret.kind = "paths" /\ OtherMode.kind = "paths" => call.ret = OtherMode
    /\ ~call.dry_run /\ call.ret.kind = "paths" =>
         DOMAIN files = FilesOf(call.ret.paths)

\* C34 witness: a call in apply mode has returned two different paths, as
\* the dry run on the same output does, and has written both files.
C34_Witness ==
  /\ call.fn = "_apply_changes"
  /\ ~call.dry_run
  /\ call.ret.kind = "paths"
  /\ Len(call.ret.paths) = 2
  /\ call.ret.paths[1] # call.ret.paths[2]
  /\ OtherMode = call.ret
  /\ Cardinality(DOMAIN files) = 2

====
